---- MODULE Spec2Model ----
(*****************************************************************************)
(* Model of robotic-arm-3d: class IKSolver of src/src/scene-manager.js       *)
(* (constructor, solve, forward, isReachable), and class RoboticArmApp with  *)
(* the HandTracker of src/src/hand-tracker.js.                               *)
(*                                                                           *)
(* Numbers.  The program computes with IEEE 754 doubles, and so does the     *)
(* model: a double is a sign, a mantissa of up to MantissaBits bits and an   *)
(* exponent, and +, -, *, / and Math.sqrt round the exact result to the      *)
(* nearest double, ties to even.  The two zeros keep their sign; a result    *)
(* beyond the largest double is an infinity, a result below the smallest     *)
(* normal double loses digits and may become a zero, and an operation        *)
(* without a value (infinity - infinity, 0 / 0, the arc cosine of a number   *)
(* beyond 1) gives NaN, on which every comparison is false.  The lengths of  *)
(* the solver, the targets, planarDistance, reachDistance, the limits of the *)
(* workspace and of the clamps, the two cosines of the law of cosines, the   *)
(* points forward returns, the slider values, lerp, mapToWorldSpace and      *)
(* toFixed are doubles, and every comparison the program makes is made on    *)
(* them.                                                                     *)
(*                                                                           *)
(* Math.acos, Math.atan2, Math.sin and Math.cos are left to the              *)
(* implementation by the language.  The model computes them on doubles,      *)
(* operation by operation, as the ieee754 library of V8 does, which is       *)
(* fdlibm (e_acos.c, s_atan.c, e_atan2.c, k_sin.c, k_cos.c, e_rem_pio2.c);   *)
(* the angles solve returns and forward takes are doubles.  A property that  *)
(* compares coordinates across solve and forward is stated with the          *)
(* tolerance Tol.                                                            *)
(*                                                                           *)
(* Four specifications.  Spec: a solver constructed from any of Configs and  *)
(* the calls made on it.  ExtremeSpec: the same calls on a solver            *)
(* constructed from any of ExtremeConfigs, whose lengths reach the ends of   *)
(* the range of doubles, with targets whose zeros are +0 or -0.  AppSpec:    *)
(* the app with its solver (4, 12, 10), the HandTracker and the              *)
(* SceneManager: clicks on the camera toggle, the settling of camera.start() *)
(* and camera.stop(), the continuations of the awaits in start, stop and     *)
(* toggleCamera, hand results, the three sliders, beforeunload (dispose) and *)
(* the animation frame statement by statement.  A handler runs to its end or *)
(* to an await on a pending promise; continuations made ready run in order,  *)
(* before the next event.  TrackingSpec: the same app from the moment its    *)
(* camera runs, with hand results on and beyond the faces of the mapped box  *)
(* and smoothing x speed in [0, 1], both ends included.                      *)
(*****************************************************************************)
EXTENDS Integers, Sequences, FiniteSets, TLC

Abs(a) == IF a < 0 THEN -a ELSE a

Sign(a) == IF a < 0 THEN -1 ELSE 1

Min2(a, b) == IF a < b THEN a ELSE b

Max2(a, b) == IF a > b THEN a ELSE b

\* ------------------------------------------------------------------------
\* Numbers: IEEE 754 doubles
\* ------------------------------------------------------------------------

\* A natural number of any size is the sequence of its digits in base 2^15,
\* the lowest first, without leading zeros: <<>> is 0.
Base == 2 ^ 15

Limb(a, i) == IF i <= Len(a) THEN a[i] ELSE 0

RECURSIVE NatTrim(_)
NatTrim(a) ==
    IF a # <<>> /\ a[Len(a)] = 0 THEN NatTrim(SubSeq(a, 1, Len(a) - 1)) ELSE a

RECURSIVE NatOfInt(_)
NatOfInt(n) ==
    IF n = 0 THEN <<>> ELSE <<n % Base>> \o NatOfInt(n \div Base)

RECURSIVE IntOfNat(_)
IntOfNat(a) ==
    IF a = <<>> THEN 0 ELSE a[1] + Base * IntOfNat(Tail(a))

\* the digits i.. of a + b with the carry from below; t is the sum at digit i
RECURSIVE NatAddFrom(_, _, _, _)
NatAddDigit(a, b, i, t) ==
    <<t % Base>> \o NatAddFrom(a, b, i + 1, t \div Base)

NatAddFrom(a, b, i, carry) ==
    IF i > Len(a) /\ i > Len(b)
    THEN NatOfInt(carry)
    ELSE NatAddDigit(a, b, i, Limb(a, i) + Limb(b, i) + carry)

NatAdd(a, b) == NatAddFrom(a, b, 1, 0)

\* a - b for a >= b
RECURSIVE NatSubFrom(_, _, _, _)
NatSubFrom(a, b, i, borrow) ==
    IF i > Len(a)
    THEN <<>>
    ELSE IF a[i] - Limb(b, i) - borrow < 0
    THEN <<a[i] - Limb(b, i) - borrow + Base>> \o NatSubFrom(a, b, i + 1, 1)
    ELSE <<a[i] - Limb(b, i) - borrow>> \o NatSubFrom(a, b, i + 1, 0)

NatSub(a, b) == NatTrim(NatSubFrom(a, b, 1, 0))

\* 1, 0 or -1 as a is above, at or below b, by their digits from i down
RECURSIVE NatCmpFrom(_, _, _)
NatCmpFrom(a, b, i) ==
    IF i = 0 THEN 0
    ELSE IF Limb(a, i) > Limb(b, i) THEN 1
    ELSE IF Limb(a, i) < Limb(b, i) THEN -1
    ELSE NatCmpFrom(a, b, i - 1)

NatCmp(a, b) == NatCmpFrom(a, b, Max2(Len(a), Len(b)))

\* a * k for 0 <= k < Base
RECURSIVE NatScaleFrom(_, _, _, _)
NatScaleFrom(a, k, i, carry) ==
    IF i > Len(a)
    THEN NatOfInt(carry)
    ELSE <<(a[i] * k + carry) % Base>>
         \o NatScaleFrom(a, k, i + 1, (a[i] * k + carry) \div Base)

NatScale(a, k) == NatTrim(NatScaleFrom(a, k, 1, 0))

\* a with n zero digits below it: a * Base^n
NatUp(a, n) ==
    IF a = <<>> THEN <<>> ELSE [i \in 1..n |-> 0] \o a

\* the digits i.. of acc + a * k for 0 <= k < Base, with the carry from
\* below; t is the sum at digit i
RECURSIVE NatMulAddFrom(_, _, _, _, _)
NatMulAddDigit(acc, a, k, i, t) ==
    <<t % Base>> \o NatMulAddFrom(acc, a, k, i + 1, t \div Base)

NatMulAddFrom(acc, a, k, i, carry) ==
    IF i > Len(a) /\ i > Len(acc)
    THEN NatOfInt(carry)
    ELSE NatMulAddDigit(acc, a, k, i, Limb(acc, i) + Limb(a, i) * k + carry)

RECURSIVE NatMul(_, _)
NatMul(a, b) ==
    IF b = <<>> \/ a = <<>>
    THEN <<>>
    ELSE NatTrim(NatMulAddFrom(NatUp(NatMul(a, Tail(b)), 1), a, b[1], 1, 0))

\* the quotient by d of the digits i.. of a, with the rest r carried in
\* from above, as a sequence with its rest as the lowest element; 0 < d < Base
RECURSIVE NatDivFrom(_, _, _, _)
NatDivFrom(a, d, i, r) ==
    IF i = 0
    THEN <<r>>
    ELSE Append(NatDivFrom(a, d, i - 1, (r * Base + a[i]) % d),
                (r * Base + a[i]) \div d)

\* a \div d
NatDiv(a, d) == NatTrim(Tail(NatDivFrom(a, d, Len(a), 0)))

\* a * 2^k
NatShl(a, k) ==
    IF k % 15 = 0 THEN NatUp(a, k \div 15)
    ELSE NatUp(NatScale(a, 2 ^ (k % 15)), k \div 15)

\* a \div 2^k
NatShr(a, k) ==
    IF Len(a) <= k \div 15
    THEN <<>>
    ELSE NatDiv(SubSeq(a, k \div 15 + 1, Len(a)), 2 ^ (k % 15))

\* the number of binary digits of a digit n
IntBits(n) ==
    IF n < 128
    THEN IF n < 8
         THEN IF n < 2 THEN n ELSE IF n < 4 THEN 2 ELSE 3
         ELSE IF n < 32
         THEN IF n < 16 THEN 4 ELSE 5
         ELSE IF n < 64 THEN 6 ELSE 7
    ELSE IF n < 2048
    THEN IF n < 512
         THEN IF n < 256 THEN 8 ELSE 9
         ELSE IF n < 1024 THEN 10 ELSE 11
    ELSE IF n < 8192
    THEN IF n < 4096 THEN 12 ELSE 13
    ELSE IF n < 16384 THEN 14 ELSE 15

\* the number of binary digits of a
BitLength(a) ==
    IF a = <<>> THEN 0 ELSE 15 * (Len(a) - 1) + IntBits(a[Len(a)])

\* the binary digit n of a, the lowest being digit 0
NatBit(a, n) == (Limb(a, n \div 15 + 1) \div 2 ^ (n % 15)) % 2

\* whether a binary digit of a below digit n is 1
NatLowBits(a, n) ==
    \/ Limb(a, n \div 15 + 1) % 2 ^ (n % 15) # 0
    \/ \E i \in 1..Min2(n \div 15, Len(a)) : a[i] # 0

\* a / 2^k rounded to the nearest integer: up when the digits shifted out
\* are above half; at half, up when tiesUp, else to the even one
NatShrRound(a, k, tiesUp) ==
    IF k = 0
    THEN a
    ELSE IF /\ NatBit(a, k - 1) = 1
            /\ (tiesUp \/ NatBit(a, k) = 1 \/ NatLowBits(a, k - 1))
    THEN NatAdd(NatShr(a, k), <<1>>)
    ELSE NatShr(a, k)

\* A double is a sign (1 or -1), a mantissa m and the binary exponent e of
\* the lowest digit of the mantissa: its value is sign * m * 2^e.  A normal
\* number has a mantissa of MantissaBits digits and an exponent from
\* MinExponent to MaxExponent; a subnormal number has a shorter mantissa and
\* the exponent MinExponent, and the two zeros, +0 and -0, are the subnormal
\* numbers of the empty mantissa.  The exponent MaxExponent + 1 holds what is
\* not finite: the two infinities with the empty mantissa, and NaN.
MantissaBits == 53

MinExponent == -1074

MaxExponent == 971

\* +0, the value of the literal 0
DoubleZero == [sign |-> 1, m |-> <<>>, e |-> -1074]

\* -0
NegativeZero == [sign |-> -1, m |-> <<>>, e |-> -1074]

Infinity == [sign |-> 1, m |-> <<>>, e |-> 972]

NaN == [sign |-> 1, m |-> <<1>>, e |-> 972]

IsNaN(x) == x.e > MaxExponent /\ x.m # <<>>

IsInfinite(x) == x.e > MaxExponent /\ x.m = <<>>

\* x is +0 or -0
IsZero(x) == x.e <= MaxExponent /\ x.m = <<>>

\* x with the sign given
WithSign(x, sign) == [x EXCEPT !.sign = sign]

\* sign * m * 2^e for a mantissa m of at most MantissaBits digits: infinite
\* when the exponent is beyond MaxExponent
DoubleFinite(sign, m, e) ==
    IF e > MaxExponent THEN WithSign(Infinity, sign)
    ELSE [sign |-> sign, m |-> m, e |-> e]

\* sign * m * 2^e for a mantissa m that rounding may have carried to
\* MantissaBits + 1 digits
DoubleNormal(sign, m, e) ==
    IF BitLength(m) > MantissaBits
    THEN DoubleFinite(sign, NatShr(m, 1), e + 1)
    ELSE DoubleFinite(sign, m, e)

\* the double nearest to sign * n * 2^e whose lowest digit has exponent t
DoubleRoundTo(sign, n, e, t) ==
    IF t <= e THEN DoubleFinite(sign, NatShl(n, e - t), t)
    ELSE DoubleNormal(sign, NatShrRound(n, t - e, FALSE), t)

\* the double nearest to sign * n * 2^e for n of len binary digits: the
\* result has MantissaBits digits, or fewer when its lowest digit would lie
\* below MinExponent (gradual underflow, down to a zero of the sign given)
DoubleRoundOf(sign, n, e, len) ==
    IF n = <<>>
    THEN WithSign(DoubleZero, sign)
    ELSE DoubleRoundTo(sign, n, e, Max2(e + len - MantissaBits, MinExponent))

\* the double nearest to sign * n * 2^e, a tie to the even mantissa
DoubleRound(sign, n, e) ==
    DoubleRoundOf(sign, n, e, BitLength(n))

\* -x
DoubleNeg(x) == IF IsNaN(x) THEN x ELSE [x EXCEPT !.sign = -x.sign]

\* Math.abs(x)
DoubleAbs(x) == IF IsNaN(x) THEN x ELSE [x EXCEPT !.sign = 1]

\* sx * a * 2^e + sy * b * 2^e for a and b not 0: +0 when they cancel
DoubleSum(sx, a, sy, b, e) ==
    IF sx = sy THEN DoubleRound(sx, NatAdd(a, b), e)
    ELSE IF NatCmp(a, b) = 0 THEN DoubleZero
    ELSE IF NatCmp(a, b) > 0 THEN DoubleRound(sx, NatSub(a, b), e)
    ELSE DoubleRound(sy, NatSub(b, a), e)

\* a term whose exponent is more than FarBelow under that of the other lies
\* below a quarter of the other's lowest digit, and only decides the rounding
FarBelow == 64

\* x + y
DoubleAdd(x, y) ==
    IF IsNaN(x) \/ IsNaN(y) THEN NaN
    ELSE IF IsInfinite(x)
    THEN (IF IsInfinite(y) /\ x.sign # y.sign THEN NaN ELSE x)
    ELSE IF IsInfinite(y) THEN y
    ELSE IF IsZero(x)
    THEN (IF IsZero(y) /\ x.sign # y.sign THEN DoubleZero ELSE y)
    ELSE IF IsZero(y) THEN x
    ELSE IF x.e - y.e > FarBelow
    THEN DoubleSum(x.sign, NatShl(x.m, 2), y.sign, <<1>>, x.e - 2)
    ELSE IF y.e - x.e > FarBelow
    THEN DoubleSum(x.sign, <<1>>, y.sign, NatShl(y.m, 2), y.e - 2)
    ELSE DoubleSum(x.sign, NatShl(x.m, x.e - Min2(x.e, y.e)),
                   y.sign, NatShl(y.m, y.e - Min2(x.e, y.e)),
                   Min2(x.e, y.e))

\* x - y
DoubleSub(x, y) == DoubleAdd(x, DoubleNeg(y))

\* x * y
DoubleMul(x, y) ==
    IF IsNaN(x) \/ IsNaN(y) THEN NaN
    ELSE IF IsInfinite(x) \/ IsInfinite(y)
    THEN (IF IsZero(x) \/ IsZero(y) THEN NaN
          ELSE WithSign(Infinity, x.sign * y.sign))
    ELSE DoubleRound(x.sign * y.sign, NatMul(x.m, y.m), x.e + y.e)

\* 1, 0 or -1 as x > y, x = y or x < y, for x and y not NaN; -0 = +0
DoubleCmp(x, y) ==
    IF IsZero(x) /\ IsZero(y) THEN 0
    ELSE IF x.sign # y.sign THEN x.sign
    ELSE IF x.e # y.e THEN (IF x.e > y.e THEN x.sign ELSE -x.sign)
    ELSE x.sign * NatCmp(x.m, y.m)

\* x < y, x <= y, x > y and x >= y: false when x or y is NaN
Less(x, y) == ~IsNaN(x) /\ ~IsNaN(y) /\ DoubleCmp(x, y) < 0

LessEq(x, y) == ~IsNaN(x) /\ ~IsNaN(y) /\ DoubleCmp(x, y) <= 0

Greater(x, y) == ~IsNaN(x) /\ ~IsNaN(y) /\ DoubleCmp(x, y) > 0

GreaterEq(x, y) == ~IsNaN(x) /\ ~IsNaN(y) /\ DoubleCmp(x, y) >= 0

\* Math.max(x, y) and Math.min(x, y): NaN when x or y is NaN, and +0 is
\* larger than -0
DoubleMax(x, y) ==
    IF IsNaN(x) \/ IsNaN(y) THEN NaN
    ELSE IF DoubleCmp(x, y) > 0 THEN x
    ELSE IF DoubleCmp(x, y) < 0 THEN y
    ELSE IF x.sign > 0 THEN x ELSE y

DoubleMin(x, y) ==
    IF IsNaN(x) \/ IsNaN(y) THEN NaN
    ELSE IF DoubleCmp(x, y) < 0 THEN x
    ELSE IF DoubleCmp(x, y) > 0 THEN y
    ELSE IF x.sign < 0 THEN x ELSE y

\* the double a decimal literal or parseFloat gives for n / 10^digits,
\* digits <= 4: the quotient is taken to 70 binary places, and one more
\* place records whether a rest was left
DoubleOfQuotient(sign, d) ==
    DoubleRound(sign,
                NatAdd(NatScale(NatTrim(Tail(d)), 2),
                       IF d[1] = 0 THEN <<>> ELSE <<1>>),
                -71)

DoubleOfShifted(sign, a, digits) ==
    DoubleOfQuotient(sign, NatDivFrom(a, 10 ^ digits, Len(a), 0))

DoubleOf(n, digits) ==
    IF digits = 0 THEN DoubleRound(Sign(n), NatOfInt(Abs(n)), 0)
    ELSE DoubleOfShifted(Sign(n), NatShl(NatOfInt(Abs(n)), 70), digits)

\* 2^k
PowerOfTwo(k) == DoubleRound(1, <<1>>, k)

\* |x| * 10^digits rounded to an integer, a tie away from zero, for a
\* finite x
DoubleScaled(x, digits) ==
    IF IsZero(x) THEN 0
    ELSE IF x.e >= 0
    THEN IntOfNat(NatShl(NatMul(x.m, NatOfInt(10 ^ digits)), x.e))
    ELSE IntOfNat(NatShrRound(NatMul(x.m, NatOfInt(10 ^ digits)), -x.e, TRUE))

\* Number.prototype.toFixed(digits) for a finite x: the sign and the digits
\* of the string, "-0.0" being [negative |-> TRUE, digits |-> 0].  The sign
\* is written for x < 0, so not for -0.
toFixed(x, digits) ==
    [negative |-> x.sign < 0 /\ ~IsZero(x),
     digits |-> DoubleScaled(x, digits)]

\* the largest digit q in lo..hi with d * q <= r, by bisection
RECURSIVE NatDigit(_, _, _, _)
NatDigit(r, d, lo, hi) ==
    IF lo >= hi THEN lo
    ELSE IF NatCmp(NatScale(d, (lo + hi + 1) \div 2), r) <= 0
    THEN NatDigit(r, d, (lo + hi + 1) \div 2, hi)
    ELSE NatDigit(r, d, lo, (lo + hi + 1) \div 2 - 1)

\* the 15 binary digits of a mantissa d from its highest down
MantissaHead(d) == (d[4] * Base + d[3]) \div 2 ^ 8

\* r \div Base^3, for r < d * Base and d a mantissa
RestHead(r) == Limb(r, 5) * Base + Limb(r, 4)

\* long division of a by the mantissa d, digit i of a downwards: the rest r
\* so far, the digits q of the quotient so far.  The next digit lies between
\* the quotients of the heads of r and d.
RECURSIVE NatLongFrom(_, _, _, _, _)
NatLongDigit(a, d, i, r, q, digit) ==
    IF digit = 0
    THEN NatLongFrom(a, d, i - 1, r, <<0>> \o q)
    ELSE NatLongFrom(a, d, i - 1, NatSub(r, NatScale(d, digit)),
                     <<digit>> \o q)

NatLongStep(a, d, i, r, q) ==
    NatLongDigit(a, d, i, r, q,
                 NatDigit(r, d,
                          (RestHead(r) * 128) \div (MantissaHead(d) + 1),
                          Min2(Base - 1,
                               ((RestHead(r) + 1) * 128) \div MantissaHead(d))))

NatLongFrom(a, d, i, r, q) ==
    IF i = 0 THEN [quotient |-> NatTrim(q), rest |-> r]
    ELSE NatLongStep(a, d, i, NatTrim(<<a[i]>> \o r), q)

\* a divided by the mantissa d: quotient and rest
NatLong(a, d) == NatLongFrom(a, d, Len(a), <<>>, <<>>)

\* 2 * p * Base + digit
NatRootTrial(p, digit) == NatTrim(<<digit>> \o NatScale(p, 2))

\* the largest digit q in lo..hi with (2 * p * Base + q) * q <= r
RECURSIVE NatRootDigit(_, _, _, _)
NatRootDigit(r, p, lo, hi) ==
    IF lo >= hi THEN lo
    ELSE IF NatCmp(NatScale(NatRootTrial(p, (lo + hi + 1) \div 2),
                            (lo + hi + 1) \div 2), r) <= 0
    THEN NatRootDigit(r, p, (lo + hi + 1) \div 2, hi)
    ELSE NatRootDigit(r, p, lo, (lo + hi + 1) \div 2 - 1)

\* the 15 binary digits of the root p so far below its 10 highest
RootHead(p) ==
    (IF Len(p) = 1 THEN p[1] * Base ELSE p[Len(p)] * Base + p[Len(p) - 1])
      \div 2 ^ 10

\* what RootHead(p) leaves out of p + 1/2, rounded up
RootSlack(p) == IF Len(p) = 1 THEN 17 ELSE 1

\* r \div Base^Len(p), 16 times
RootRestHead(r, p) == 16 * (Limb(r, Len(p) + 2) * Base + Limb(r, Len(p) + 1))

\* the square root of a digit pair by digit pair, pair k downwards: the
\* rest r so far, the root p so far.  After the first digit the next digit
\* lies between the quotients of the heads of r and 2 * p * Base.
RECURSIVE NatRootFrom(_, _, _, _)
NatRootDigitOf(a, k, r, p, digit) ==
    IF digit = 0
    THEN NatRootFrom(a, k - 1, r, NatTrim(<<0>> \o p))
    ELSE NatRootFrom(a, k - 1,
                     NatSub(r, NatScale(NatRootTrial(p, digit), digit)),
                     NatTrim(<<digit>> \o p))

NatRootStep(a, k, r, p) ==
    IF p = <<>>
    THEN NatRootDigitOf(a, k, r, p, NatRootDigit(r, p, 0, Base - 1))
    ELSE NatRootDigitOf(a, k, r, p,
                        NatRootDigit(r, p,
                                     RootRestHead(r, p)
                                       \div (RootHead(p) + RootSlack(p)),
                                     Min2(Base - 1,
                                          (RootRestHead(r, p) + 16)
                                            \div RootHead(p))))

NatRootFrom(a, k, r, p) ==
    IF k = 0 THEN [root |-> p, rest |-> r]
    ELSE NatRootStep(a, k,
                     NatTrim(<<Limb(a, 2 * k - 1), Limb(a, 2 * k)>> \o r), p)

\* the integer square root of a < 2^110, and what is left of a
NatRoot(a) == NatRootFrom(a, (Len(a) + 1) \div 2, <<>>, <<>>)

\* twice q, plus one when a rest was left
NatSticky(q, rest) == NatAdd(NatScale(q, 2), IF rest = <<>> THEN <<>> ELSE <<1>>)

DoubleQuotient(sign, long, e) ==
    DoubleRound(sign, NatSticky(long.quotient, long.rest), e)

\* the mantissa of a finite x # 0 with MantissaBits digits, and the exponent
\* of its lowest digit: those of x, but for a subnormal x
Mantissa(x) == NatShl(x.m, MantissaBits - BitLength(x.m))

Exponent(x) == x.e - (MantissaBits - BitLength(x.m))

\* x / y
DoubleDiv(x, y) ==
    IF IsNaN(x) \/ IsNaN(y) THEN NaN
    ELSE IF IsInfinite(x)
    THEN (IF IsInfinite(y) THEN NaN ELSE WithSign(Infinity, x.sign * y.sign))
    ELSE IF IsInfinite(y) THEN WithSign(DoubleZero, x.sign * y.sign)
    ELSE IF IsZero(y)
    THEN (IF IsZero(x) THEN NaN ELSE WithSign(Infinity, x.sign * y.sign))
    ELSE IF IsZero(x) THEN WithSign(DoubleZero, x.sign * y.sign)
    ELSE DoubleQuotient(x.sign * y.sign,
                        NatLong(NatShl(Mantissa(x), 56), Mantissa(y)),
                        Exponent(x) - Exponent(y) - 57)

DoubleRootOf(r, e) == DoubleRound(1, NatSticky(r.root, r.rest), e)

\* the square root of m * 2^e for a mantissa m of MantissaBits digits
DoubleRoot(m, e) ==
    DoubleRootOf(NatRoot(NatShl(m, 56 + (e % 2))),
                 ((e - (e % 2) - 56) \div 2) - 1)

\* Math.sqrt(x)
DoubleSqrt(x) ==
    IF IsNaN(x) \/ IsZero(x) THEN x
    ELSE IF x.sign < 0 THEN NaN
    ELSE IF IsInfinite(x) THEN x
    ELSE DoubleRoot(Mantissa(x), Exponent(x))

\* ------------------------------------------------------------------------
\* The JavaScript Math object
\* ------------------------------------------------------------------------
\* Math.sqrt, Math.abs, Math.max and Math.min are exact in every engine.
\* Math.acos, Math.atan2, Math.sin and Math.cos are computed as V8 (Chrome,
\* Node.js) computes them in its ieee754 library, which is fdlibm (e_acos.c,
\* s_atan.c, e_atan2.c, k_sin.c, k_cos.c, e_rem_pio2.c) operation by
\* operation in doubles, with the atan2 of its FreeBSD descendant.  The
\* library reads the high word of a double, the upper 32 binary digits of
\* its encoding, to choose its cases.

\* One operator computes every operation of the library: Fdlibm(f, x, y) is
\* x + y, x - y, x * y, x / y or the square root of x, rounded to the nearest
\* double, or the function f of the Math object.
RECURSIVE Fdlibm(_, _, _)

FdlibmAdd(x, y) == Fdlibm("add", x, y)

FdlibmSub(x, y) == Fdlibm("add", x, DoubleNeg(y))

FdlibmMul(x, y) == Fdlibm("mul", x, y)

FdlibmDiv(x, y) == Fdlibm("div", x, y)

FdlibmSqrt(x) == Fdlibm("sqrt", x, DoubleZero)

One == [sign |-> 1, m |-> <<0, 0, 0, 128>>, e |-> -52]

Two == [sign |-> 1, m |-> <<0, 0, 0, 128>>, e |-> -51]

MinusOne == [sign |-> -1, m |-> <<0, 0, 0, 128>>, e |-> -52]

MinusTwo == [sign |-> -1, m |-> <<0, 0, 0, 128>>, e |-> -51]

Half == [sign |-> 1, m |-> <<0, 0, 0, 128>>, e |-> -53]

OneAndHalf == [sign |-> 1, m |-> <<0, 0, 0, 192>>, e |-> -52]

\* Math.PI, the double 3.141592653589793
MathPI == [sign |-> 1, m |-> <<11544, 10376, 2029, 201>>, e |-> -51]

\* the high word of |x|: the exponent field and the 20 highest digits of the
\* fraction.  The exponent field of a zero or a subnormal number is 0, that
\* of an infinity or NaN 2047 (0x7ff00000, and 0x7ff80000 for NaN).
HighWord(x) ==
    IF IsInfinite(x) THEN 2146435072
    ELSE IF IsNaN(x) THEN 2146959360
    ELSE (x.e + 1074) * 2 ^ 20 + Limb(x.m, 4) * 2 ^ 13 + Limb(x.m, 3) \div 4

\* the exponent field of x
ExponentField(x) == HighWord(x) \div 2 ^ 20

\* x with the low word of its encoding set to 0
ClearLowWord(x) ==
    [x EXCEPT !.m = NatTrim(<<0, 0, 4 * (Limb(x.m, 3) \div 4), Limb(x.m, 4)>>)]

\* (int) x for a double x >= 0 below 2^31
IntOfDouble(x) ==
    IF x.e >= 0 THEN IntOfNat(NatShl(x.m, x.e))
    ELSE IntOfNat(NatShr(x.m, -x.e))

\* (double) n for an integer n
DoubleOfInt(n) == DoubleRound(Sign(n), NatOfInt(Abs(n)), 0)

\* c[1] + c[2] * w + ... + c[k] * w^(k - 1) + acc * w^k for a finite w, by
\* Horner's rule
RECURSIVE Polynomial(_, _, _, _)
Polynomial(c, k, w, acc) ==
    IF k = 0 THEN acc
    ELSE IF IsZero(acc) THEN Polynomial(c, k - 1, w, c[k])
    ELSE Polynomial(c, k - 1, w, FdlibmAdd(c[k], FdlibmMul(w, acc)))

\* pio2_hi and pio2_lo: pi / 2 in two doubles
PiO2Hi == [sign |-> 1, m |-> <<11544, 10376, 2029, 201>>, e |-> -52]

PiO2Lo == [sign |-> 1, m |-> <<23559, 26152, 6296, 141>>, e |-> -106]

\* pS0 ... pS5 of e_acos.c
AcosP ==
    << [sign |-> 1, m |-> <<21845, 10922, 21845, 170>>, e |-> -55],
       [sign |-> -1, m |-> <<28541, 2006, 22600, 166>>, e |-> -54],
       [sign |-> 1, m |-> <<17493, 7440, 1364, 206>>, e |-> -55],
       [sign |-> -1, m |-> <<3899, 27345, 2210, 164>>, e |-> -57],
       [sign |-> 1, m |-> <<12936, 27139, 16257, 207>>, e |-> -63],
       [sign |-> 1, m |-> <<30473, 7163, 30596, 145>>, e |-> -67] >>

\* one, qS1 ... qS4 of e_acos.c
AcosQ ==
    << [sign |-> 1, m |-> <<0, 0, 0, 128>>, e |-> -52],
       [sign |-> -1, m |-> <<11595, 14612, 26780, 153>>, e |-> -51],
       [sign |-> 1, m |-> <<2760, 14515, 11158, 129>>, e |-> -51],
       [sign |-> -1, m |-> <<345, 14106, 6576, 176>>, e |-> -53],
       [sign |-> 1, m |-> <<4738, 25181, 25366, 157>>, e |-> -56] >>

\* r = p / q of e_acos.c for z
AcosRatio(z) ==
    FdlibmDiv(FdlibmMul(z, Polynomial(AcosP, 6, z, DoubleZero)),
              Polynomial(AcosQ, 5, z, DoubleZero))

\* |x| < 0.5: pio2_hi - (x - (pio2_lo - x * r))
AcosSmall(x, r) ==
    FdlibmSub(PiO2Hi, FdlibmSub(x, FdlibmSub(PiO2Lo, FdlibmMul(x, r))))

\* x < -0.5: pi - 2.0 * (s + w) for s = sqrt(z), w = r * s - pio2_lo
AcosNegativeOf(z, s) ==
    FdlibmSub(MathPI,
              FdlibmMul(Two,
                        FdlibmAdd(s, FdlibmSub(FdlibmMul(AcosRatio(z), s),
                                               PiO2Lo))))

AcosNegative(z) == AcosNegativeOf(z, FdlibmSqrt(z))

\* x > 0.5: 2.0 * (df + w) for s = sqrt(z), df = s without its low word,
\* c = (z - df * df) / (s + df), w = r * s + c
AcosPositiveFrom(z, s, df) ==
    FdlibmMul(Two,
              FdlibmAdd(df,
                        FdlibmAdd(FdlibmMul(AcosRatio(z), s),
                                  FdlibmDiv(FdlibmSub(z, FdlibmMul(df, df)),
                                            FdlibmAdd(s, df)))))

AcosPositiveOf(z, s) == AcosPositiveFrom(z, s, ClearLowWord(s))

AcosPositive(z) == AcosPositiveOf(z, FdlibmSqrt(z))

\* Math.acos(x): NaN for |x| > 1 and for NaN.  The high words are those of
\* 1 (0x3ff00000), 0.5 (0x3fe00000) and 2^-57 (0x3c600000).
IeeeAcos(x) ==
    IF HighWord(x) >= 1072693248
    THEN (IF x = One THEN DoubleZero
          ELSE IF x = MinusOne THEN FdlibmAdd(MathPI, FdlibmMul(Two, PiO2Lo))
          ELSE NaN)
    ELSE IF HighWord(x) < 1071644672
    THEN (IF HighWord(x) <= 1012924416 THEN FdlibmAdd(PiO2Hi, PiO2Lo)
          ELSE AcosSmall(x, AcosRatio(FdlibmMul(x, x))))
    ELSE IF x.sign < 0 THEN AcosNegative(FdlibmMul(FdlibmAdd(One, x), Half))
    ELSE AcosPositive(FdlibmMul(FdlibmSub(One, x), Half))

\* atanhi and atanlo of s_atan.c: atan(0.5), atan(1), atan(1.5), atan(inf)
AtanHi ==
    << [sign |-> 1, m |-> <<15183, 2755, 12700, 237>>, e |-> -54],
       [sign |-> 1, m |-> <<11544, 10376, 2029, 201>>, e |-> -53],
       [sign |-> 1, m |-> <<30363, 9475, 19503, 251>>, e |-> -53],
       [sign |-> 1, m |-> <<11544, 10376, 2029, 201>>, e |-> -52] >>

AtanLo ==
    << [sign |-> 1, m |-> <<26082, 17502, 11772, 209>>, e |-> -108],
       [sign |-> 1, m |-> <<23559, 26152, 6296, 141>>, e |-> -107],
       [sign |-> 1, m |-> <<19389, 30177, 7713, 128>>, e |-> -108],
       [sign |-> 1, m |-> <<23559, 26152, 6296, 141>>, e |-> -106] >>

\* aT[0], aT[2], ... aT[10] and aT[1], aT[3], ... aT[9] of s_atan.c
AtanEven ==
    << [sign |-> 1, m |-> <<21773, 10922, 21845, 170>>, e |-> -54],
       [sign |-> 1, m |-> <<1023, 9217, 9362, 146>>, e |-> -55],
       [sign |-> 1, m |-> <<8302, 2712, 5943, 186>>, e |-> -56],
       [sign |-> 1, m |-> <<15697, 16800, 13722, 136>>, e |-> -56],
       [sign |-> 1, m |-> <<3563, 18668, 27948, 203>>, e |-> -57],
       [sign |-> 1, m |-> <<23057, 17989, 13547, 133>>, e |-> -58] >>

AtanOdd ==
    << [sign |-> -1, m |-> <<27588, 13105, 26214, 204>>, e |-> -55],
       [sign |-> -1, m |-> <<5745, 31814, 18203, 227>>, e |-> -56],
       [sign |-> -1, m |-> <<6765, 24297, 17354, 157>>, e |-> -56],
       [sign |-> -1, m |-> <<32154, 9661, 30901, 238>>, e |-> -57],
       [sign |-> -1, m |-> <<27695, 22740, 20752, 149>>, e |-> -57] >>

\* s1 + s2 of s_atan.c for z = x * x and w = z * z
AtanSum(z, w) ==
    FdlibmAdd(FdlibmMul(z, Polynomial(AtanEven, 6, w, DoubleZero)),
              FdlibmMul(w, Polynomial(AtanOdd, 5, w, DoubleZero)))

AtanSeries(z) == AtanSum(z, FdlibmMul(z, z))

\* |x| < 0.4375: x - x * (s1 + s2)
AtanDirect(x) == FdlibmSub(x, FdlibmMul(x, AtanSeries(FdlibmMul(x, x))))

\* atanhi[id] - ((x * (s1 + s2) - atanlo[id]) - x) for the reduced argument x
AtanReduced(id, x) ==
    FdlibmSub(AtanHi[id + 1],
              FdlibmSub(FdlibmSub(FdlibmMul(x, AtanSeries(FdlibmMul(x, x))),
                                  AtanLo[id + 1]),
                        x))

\* atan(x) for x >= 0.4375 with the high word ix: the argument is reduced
\* about 0.5, 1, 1.5 or infinity.  The high words are those of 1.1875
\* (0x3ff30000), 0.6875 (0x3fe60000) and 2.4375 (0x40038000).
AtanOfPositive(x, ix) ==
    IF ix < 1072889856
    THEN IF ix < 1072037888
         THEN AtanReduced(0, FdlibmDiv(FdlibmSub(FdlibmMul(Two, x), One),
                                       FdlibmAdd(Two, x)))
         ELSE AtanReduced(1, FdlibmDiv(FdlibmSub(x, One), FdlibmAdd(x, One)))
    ELSE IF ix < 1073971200
    THEN AtanReduced(2, FdlibmDiv(FdlibmSub(x, OneAndHalf),
                                  FdlibmAdd(One, FdlibmMul(OneAndHalf, x))))
    ELSE AtanReduced(3, FdlibmDiv(MinusOne, x))

\* atan(x) of s_atan.c.  The high words are those of 2^66 (0x44100000),
\* 0.4375 (0x3fdc0000) and 2^-29 (0x3e200000).
Atan(x) ==
    IF HighWord(x) >= 1141899264
    THEN (IF IsNaN(x) THEN NaN
          ELSE IF x.sign > 0 THEN FdlibmAdd(AtanHi[4], AtanLo[4])
          ELSE FdlibmSub(DoubleNeg(AtanHi[4]), AtanLo[4]))
    ELSE IF HighWord(x) < 1071382528
    THEN (IF HighWord(x) < 1042284544 THEN x ELSE AtanDirect(x))
    ELSE IF x.sign < 0
    THEN DoubleNeg(AtanOfPositive(DoubleAbs(x), HighWord(x)))
    ELSE AtanOfPositive(x, HighWord(x))

\* pi_lo of e_atan2.c
PiLo == [sign |-> 1, m |-> <<23559, 26152, 6296, 141>>, e |-> -105]

\* pi_o_4 of e_atan2.c
PiO4 == [sign |-> 1, m |-> <<11544, 10376, 2029, 201>>, e |-> -53]

Three == [sign |-> 1, m |-> <<0, 0, 0, 192>>, e |-> -51]

\* the z of atan2 for finite x # 0 and y # 0: the angle of (|x|, |y|); k is
\* the difference of the exponent fields of y and x
Atan2Magnitude(y, x, k) ==
    IF k > 60 THEN FdlibmAdd(PiO2Hi, FdlibmMul(Half, PiLo))
    ELSE IF x.sign < 0 /\ k < -60 THEN DoubleZero
    ELSE Atan(DoubleAbs(FdlibmDiv(y, x)))

\* the angle z put into the quadrant of (x, y): z or -z for x > 0, and for
\* k > 60 whatever the sign of x (m &= 1)
Atan2Quadrant(y, x, z, k) ==
    IF x.sign > 0 \/ k > 60 THEN (IF y.sign > 0 THEN z ELSE DoubleNeg(z))
    ELSE IF y.sign > 0 THEN FdlibmSub(MathPI, FdlibmSub(z, PiLo))
    ELSE FdlibmSub(FdlibmSub(z, PiLo), MathPI)

Atan2Of(y, x, k) == Atan2Quadrant(y, x, Atan2Magnitude(y, x, k), k)

\* atan2 for finite x # 0 and y # 0
Atan2NonZero(y, x) ==
    Atan2Of(y, x, (HighWord(y) - HighWord(x)) \div 2 ^ 20)

\* atan2 for an infinite x: a multiple of pi / 4 for an infinite y
Atan2AtInfinity(y, x) ==
    IF IsInfinite(y)
    THEN IF x.sign > 0 THEN WithSign(PiO4, y.sign)
         ELSE WithSign(FdlibmMul(Three, PiO4), y.sign)
    ELSE IF x.sign > 0 THEN WithSign(DoubleZero, y.sign)
    ELSE WithSign(MathPI, y.sign)

\* Math.atan2(y, x) of e_atan2.c.  The sign of a zero counts: for y = +0 or
\* -0 the result is y when x is positive or +0, and pi with the sign of y
\* when x is negative or -0.
IeeeAtan2(y, x) ==
    IF IsNaN(x) \/ IsNaN(y) THEN NaN
    ELSE IF x = One THEN Atan(y)
    ELSE IF IsZero(y) THEN (IF x.sign > 0 THEN y ELSE WithSign(MathPI, y.sign))
    ELSE IF IsZero(x) THEN WithSign(PiO2Hi, y.sign)
    ELSE IF IsInfinite(x) THEN Atan2AtInfinity(y, x)
    ELSE IF IsInfinite(y) THEN WithSign(PiO2Hi, y.sign)
    ELSE Atan2NonZero(y, x)

\* S1 and S2 ... S6 of k_sin.c
SinS1 == [sign |-> -1, m |-> <<21833, 10922, 21845, 170>>, e |-> -55]

SinCoefficients ==
    << [sign |-> 1, m |-> <<30886, 8737, 17476, 136>>, e |-> -59],
       [sign |-> -1, m |-> <<25045, 13186, 1664, 208>>, e |-> -65],
       [sign |-> 1, m |-> <<32381, 12131, 30605, 184>>, e |-> -71],
       [sign |-> -1, m |-> <<7403, 5207, 6042, 215>>, e |-> -78],
       [sign |-> 1, m |-> <<21884, 13727, 25833, 174>>, e |-> -85] >>

\* C1 ... C6 of k_cos.c
CosCoefficients ==
    << [sign |-> 1, m |-> <<21836, 10922, 21845, 170>>, e |-> -57],
       [sign |-> -1, m |-> <<20855, 11650, 1456, 182>>, e |-> -62],
       [sign |-> 1, m |-> <<5520, 13206, 1664, 208>>, e |-> -68],
       [sign |-> -1, m |-> <<21165, 312, 31038, 147>>, e |-> -74],
       [sign |-> 1, m |-> <<12740, 31593, 14970, 143>>, e |-> -81],
       [sign |-> -1, m |-> <<14548, 32016, 27558, 199>>, e |-> -89] >>

\* __kernel_sin(x, y, iy) for z = x * x, v = z * x and
\* r = S2 + z * (S3 + z * (S4 + z * (S5 + z * S6)))
KernelSinOf(x, y, iy, z, v, r) ==
    IF iy = 0
    THEN FdlibmAdd(x, FdlibmMul(v, FdlibmAdd(SinS1, FdlibmMul(z, r))))
    ELSE FdlibmSub(x,
                   FdlibmSub(FdlibmSub(FdlibmMul(z,
                                                 FdlibmSub(FdlibmMul(Half, y),
                                                           FdlibmMul(v, r))),
                                       y),
                             FdlibmMul(v, SinS1)))

KernelSinFrom(x, y, iy, z) ==
    KernelSinOf(x, y, iy, z, FdlibmMul(z, x),
                Polynomial(SinCoefficients, 5, z, DoubleZero))

\* __kernel_sin(x, y, iy): the sine of x + y for |x| <= pi / 4 and the tail y
\* of x (iy = 0 when y is 0).  The high word is that of 2^-27 (0x3e400000).
KernelSin(x, y, iy) ==
    IF HighWord(x) < 1044381696 THEN x
    ELSE KernelSinFrom(x, y, iy, FdlibmMul(x, x))

\* the qx of __kernel_cos: 0.28125, or |x| / 4 without its low word
CosQx(x) ==
    IF HighWord(x) > 1072234496 THEN [sign |-> 1, m |-> <<0, 0, 0, 144>>, e |-> -54]
    ELSE [sign |-> 1, m |-> ClearLowWord(x).m, e |-> x.e - 2]

\* __kernel_cos(x, y) for z = x * x, its polynomial r times z (zr), x * y
\* (xy) and qx
KernelCosOf(x, z, zr, xy, qx) ==
    FdlibmSub(FdlibmSub(One, qx),
              FdlibmSub(FdlibmSub(FdlibmMul(Half, z), qx), FdlibmSub(zr, xy)))

KernelCosFrom(x, y, z, r) ==
    IF HighWord(x) < 1070805811
    THEN FdlibmSub(One,
                   FdlibmSub(FdlibmMul(Half, z),
                             FdlibmSub(FdlibmMul(z, r), FdlibmMul(x, y))))
    ELSE KernelCosOf(x, z, FdlibmMul(z, r), FdlibmMul(x, y), CosQx(x))

KernelCosSquare(x, y, z) ==
    KernelCosFrom(x, y, z, FdlibmMul(z, Polynomial(CosCoefficients, 6, z,
                                                   DoubleZero)))

\* __kernel_cos(x, y): the cosine of x + y for |x| <= pi / 4.  The high
\* words are those of 2^-27 (0x3e400000) and about 0.3 (0x3fd33333).
KernelCos(x, y) ==
    IF HighWord(x) < 1044381696 THEN One
    ELSE KernelCosSquare(x, y, FdlibmMul(x, x))

\* invpio2, and pi / 2 in the pieces pio2_1, pio2_2, pio2_3 of 33 binary
\* digits with their tails pio2_1t, pio2_2t, pio2_3t
InvPiO2 == [sign |-> 1, m |-> <<18563, 23443, 31937, 162>>, e |-> -53]

PiO2First == [sign |-> 1, m |-> <<0, 10368, 2029, 201>>, e |-> -52]

PiO2FirstTail == [sign |-> 1, m |-> <<25393, 13508, 20868, 133>>, e |-> -86]

PiO2Second == [sign |-> 1, m |-> <<0, 13504, 20868, 133>>, e |-> -86]

PiO2SecondTail == [sign |-> 1, m |-> <<28787, 23558, 26152, 152>>, e |-> -121]

PiO2Third == [sign |-> 1, m |-> <<0, 23552, 26152, 152>>, e |-> -121]

PiO2ThirdTail == [sign |-> 1, m |-> <<18881, 19008, 3688, 220>>, e |-> -156]

\* npio2_hw: the high words of the first 32 multiples of pi / 2
NPiO2HighWords ==
    << 1073291771, 1074340347, 1074977148, 1075388923,
       1075800698, 1076025724, 1076231611, 1076437499,
       1076643386, 1076849274, 1076971356, 1077074300,
       1077177244, 1077280187, 1077383131, 1077486075,
       1077589019, 1077691962, 1077794906, 1077897850,
       1077968460, 1078019932, 1078071404, 1078122876,
       1078174348, 1078225820, 1078277292, 1078328763,
       1078380235, 1078431707, 1078483179, 1078534651 >>

\* the result of __ieee754_rem_pio2: x = n * pi / 2 + y0 + y1
RemPairOf(n, z, t, y0) ==
    [n |-> n, y0 |-> y0, y1 |-> FdlibmSub(FdlibmSub(z, y0), t)]

RemPair(n, z, t) == RemPairOf(n, z, t, FdlibmSub(z, t))

\* c for sign = 1, -c for sign = -1
Signed(sign, c) == IF sign < 0 THEN DoubleNeg(c) ELSE c

\* pi / 4 < |x| < 3 pi / 4: one pi / 2 is taken off, in two pieces, in three
\* when x is near pi / 2 (high word 0x3ff921fb)
RemNear(x, sign, z) ==
    IF HighWord(x) # 1073291771
    THEN RemPair(sign, z, Signed(sign, PiO2FirstTail))
    ELSE RemPair(sign, FdlibmSub(z, Signed(sign, PiO2Second)),
                 Signed(sign, PiO2SecondTail))

\* the next piece c of pi / 2, with tail ct, taken off t: the new r and w
RemStageOf(fn, t, ct, w, r) ==
    [r |-> r,
     w |-> FdlibmSub(FdlibmMul(fn, ct), FdlibmSub(FdlibmSub(t, r), w))]

RemStageFrom(fn, t, ct, w) == RemStageOf(fn, t, ct, w, FdlibmSub(t, w))

RemStage(fn, t, c, ct) == RemStageFrom(fn, t, ct, FdlibmMul(fn, c))

\* the result for |x| = n * pi / 2 + r - w
RemResultOf(sign, n, r, w, y0) ==
    IF sign < 0
    THEN [n |-> -n, y0 |-> DoubleNeg(y0),
          y1 |-> DoubleNeg(FdlibmSub(FdlibmSub(r, y0), w))]
    ELSE [n |-> n, y0 |-> y0, y1 |-> FdlibmSub(FdlibmSub(r, y0), w)]

RemResult(sign, n, s) == RemResultOf(sign, n, s.r, s.w, FdlibmSub(s.r, s.w))

\* the third iteration, when more than 49 digits cancelled in the second
RemThird(sign, n, fn, j, s, y0) ==
    IF j - ExponentField(y0) > 49
    THEN RemResult(sign, n, RemStage(fn, s.r, PiO2Third, PiO2ThirdTail))
    ELSE RemResultOf(sign, n, s.r, s.w, y0)

RemSecondOf(sign, n, fn, j, s) ==
    RemThird(sign, n, fn, j, s, FdlibmSub(s.r, s.w))

\* the second iteration, when more than 16 digits cancelled in the first
RemSecond(sign, n, fn, j, r, w, y0) ==
    IF j - ExponentField(y0) > 16
    THEN RemSecondOf(sign, n, fn, j,
                     RemStage(fn, r, PiO2Second, PiO2SecondTail))
    ELSE RemResultOf(sign, n, r, w, y0)

\* 3 pi / 4 <= |x| <= 2^19 pi / 2, for t = |x|, fn = (double) n,
\* r = t - fn * pio2_1, w = fn * pio2_1t
RemMediumOf(x, n, fn, r, w) ==
    IF n < 32 /\ HighWord(x) # NPiO2HighWords[n]
    THEN RemResultOf(x.sign, n, r, w, FdlibmSub(r, w))
    ELSE RemSecond(x.sign, n, fn, ExponentField(x), r, w, FdlibmSub(r, w))

RemMediumFrom(x, t, n, fn) ==
    RemMediumOf(x, n, fn, FdlibmSub(t, FdlibmMul(fn, PiO2First)),
                FdlibmMul(fn, PiO2FirstTail))

RemMedium(x, t, n) == RemMediumFrom(x, t, n, DoubleOfInt(n))

\* __ieee754_rem_pio2(x, y) for pi / 4 < |x| <= 2^19 pi / 2.  The high word
\* is that of 3 pi / 4 (0x4002d97c).
RemPiO2(x) ==
    IF HighWord(x) < 1073928572
    THEN (IF x.sign > 0 THEN RemNear(x, 1, FdlibmSub(x, PiO2First))
          ELSE RemNear(x, -1, FdlibmAdd(x, PiO2First)))
    ELSE RemMedium(x, DoubleAbs(x),
                   IntOfDouble(FdlibmAdd(FdlibmMul(DoubleAbs(x), InvPiO2),
                                         Half)))

\* the sine of y0 + y1 + (n + shift) * pi / 2
SinOfQuadrant(rem, shift) ==
    IF (rem.n + shift) % 4 = 0 THEN KernelSin(rem.y0, rem.y1, 1)
    ELSE IF (rem.n + shift) % 4 = 1 THEN KernelCos(rem.y0, rem.y1)
    ELSE IF (rem.n + shift) % 4 = 2
    THEN DoubleNeg(KernelSin(rem.y0, rem.y1, 1))
    ELSE DoubleNeg(KernelCos(rem.y0, rem.y1))

\* Math.sin(x) for |x| <= 2^19 pi / 2, an infinity or NaN.  The high words
\* are those of pi / 4 (0x3fe921fb) and of the infinities (0x7ff00000).
FdlibmSin(x) ==
    IF HighWord(x) <= 1072243195 THEN KernelSin(x, DoubleZero, 0)
    ELSE IF HighWord(x) >= 2146435072 THEN NaN
    ELSE SinOfQuadrant(RemPiO2(x), 0)

\* Math.cos(x) for |x| <= 2^19 pi / 2, an infinity or NaN
FdlibmCos(x) ==
    IF HighWord(x) <= 1072243195 THEN KernelCos(x, DoubleZero)
    ELSE IF HighWord(x) >= 2146435072 THEN NaN
    ELSE SinOfQuadrant(RemPiO2(x), 1)

Fdlibm(f, x, y) ==
    CASE f = "add" -> DoubleAdd(x, y)
      [] f = "mul" -> DoubleMul(x, y)
      [] f = "div" -> DoubleDiv(x, y)
      [] f = "sqrt" -> DoubleSqrt(x)
      [] f = "acos" -> IeeeAcos(x)
      [] f = "atan2" -> IeeeAtan2(x, y)
      [] f = "sin" -> FdlibmSin(x)
      [] f = "cos" -> FdlibmCos(x)

\* Math.acos(x)
Acos(x) == Fdlibm("acos", x, DoubleZero)

\* Atan2 returning a quarter turn for the origin
Atan2QuarterAtOrigin(y, x) ==
    IF IsZero(x) /\ IsZero(y) THEN PiO2Hi ELSE Fdlibm("atan2", y, x)

\* Math.atan2(y, x)
Atan2(y, x) == Fdlibm("atan2", y, x)

\* Math.sin(x)
Sin(x) == Fdlibm("sin", x, DoubleZero)

\* Math.cos(x)
Cos(x) == Fdlibm("cos", x, DoubleZero)

\* ------------------------------------------------------------------------
\* class IKSolver
\* ------------------------------------------------------------------------

\* the number literals of the class
DefaultBaseHeight == DoubleOf(4, 0)

DefaultLowerArmLength == DoubleOf(12, 0)

DefaultUpperArmLength == DoubleOf(10, 0)

FarFactor == DoubleOf(999, 3)

NearMargin == DoubleOf(1, 2)

\* An option of the config object is <<>> when the caller omits it and <<v>>
\* when the caller supplies the number v.
Omitted == <<>>

\* config.option || dflt : the default replaces every falsy value, which
\* for a number is +0, -0 and NaN
OrDefault(opt, dflt) ==
    IF opt = Omitted THEN dflt
    ELSE IF IsZero(opt[1]) \/ IsNaN(opt[1]) THEN dflt
    ELSE opt[1]

\* the fields of a solver of the three lengths
IKSolver(bh, lo, up) ==
    [baseHeight     |-> bh,
     lowerArmLength |-> lo,
     upperArmLength |-> up,
     maxReach       |-> DoubleAdd(lo, up),
     minReach       |-> DoubleAbs(DoubleSub(lo, up))]

\* constructor(config = {}): the fields of the new solver
constructor(cfg) ==
    IKSolver(OrDefault(cfg.baseHeight, DefaultBaseHeight),
             OrDefault(cfg.lowerArmLength, DefaultLowerArmLength),
             OrDefault(cfg.upperArmLength, DefaultUpperArmLength))

\* Math.sqrt(target.x * target.x + target.z * target.z)
HorizontalDistance(t) ==
    DoubleSqrt(DoubleAdd(DoubleMul(t.x, t.x), DoubleMul(t.z, t.z)))

\* target.y - this.baseHeight
VerticalDistance(g, t) == DoubleSub(t.y, g.baseHeight)

\* Math.sqrt(horizontalDistance * horizontalDistance
\*             + verticalDistance * verticalDistance)
PlanarDistance(h, v) ==
    DoubleSqrt(DoubleAdd(DoubleMul(h, h), DoubleMul(v, v)))

\* FarLimit with the factor 0.999 forgotten
FarLimitNoMargin(g) == g.maxReach

\* this.maxReach * 0.999
FarLimit(g) == DoubleMul(g.maxReach, FarFactor)

\* NearLimit without its margin of 0.01
NearLimitNoMargin(g) == g.minReach

\* this.minReach + 0.01
NearLimit(g) == DoubleAdd(g.minReach, NearMargin)

\* if (reachDistance > this.maxReach * 0.999) reachDistance = this.maxReach * 0.999
ClampFar(g, reachDistance) ==
    IF Greater(reachDistance, FarLimit(g)) THEN FarLimit(g)
    ELSE reachDistance

\* if (reachDistance < this.minReach + 0.01) reachDistance = this.minReach + 0.01
ClampNear(g, reachDistance) ==
    IF Less(reachDistance, NearLimit(g)) THEN NearLimit(g)
    ELSE reachDistance

\* ClampReach with the near clamp forgotten
ClampReachFarOnly(g, planarDistance) == ClampFar(g, planarDistance)

\* ClampReach with the far clamp forgotten
ClampReachNearOnly(g, planarDistance) == ClampNear(g, planarDistance)

\* ClampReach with its two statements in the other order
ClampReachNearFirst(g, planarDistance) ==
    ClampFar(g, ClampNear(g, planarDistance))

\* the two clamping statements of solve, in their order
ClampReach(g, planarDistance) == ClampNear(g, ClampFar(g, planarDistance))

\* x * x
Squared(x) == DoubleMul(x, x)

\* cosElbowAngle, before its clamp
CosElbowAngle(g, reachDistance) ==
    DoubleDiv(DoubleSub(DoubleSub(Squared(reachDistance),
                                  Squared(g.lowerArmLength)),
                        Squared(g.upperArmLength)),
              DoubleMul(DoubleMul(MinusTwo, g.lowerArmLength),
                        g.upperArmLength))

\* ClampCos forgotten
ClampCosNone(c) == c

\* Math.max(-1, Math.min(1, c))
ClampCos(c) == DoubleMax(MinusOne, DoubleMin(One, c))

\* elbowAngle = Math.PI - Math.acos(clampedCosElbow)
ElbowAngle(g, reachDistance) ==
    DoubleSub(MathPI, Acos(ClampCos(CosElbowAngle(g, reachDistance))))

\* cosShoulderOffset, before its clamp
CosShoulderOffset(g, reachDistance) ==
    DoubleDiv(DoubleSub(DoubleAdd(Squared(g.lowerArmLength),
                                  Squared(reachDistance)),
                        Squared(g.upperArmLength)),
              DoubleMul(DoubleMul(Two, g.lowerArmLength),
                        reachDistance))

\* targetAngle = Math.atan2(verticalDistance, horizontalDistance)
TargetAngle(v, h) == Atan2(v, h)

\* shoulderOffset = Math.acos(clampedCosShoulder)
ShoulderOffset(g, reachDistance) ==
    Acos(ClampCos(CosShoulderOffset(g, reachDistance)))

\* Math.PI / 2
HalfPI == DoubleDiv(MathPI, Two)

\* shoulderAngle = (Math.PI / 2) - (targetAngle + shoulderOffset)
ShoulderAngle(g, reachDistance, v, h) ==
    DoubleSub(HalfPI,
              DoubleAdd(TargetAngle(v, h), ShoulderOffset(g, reachDistance)))

\* AtLimit computed from the clamped distance
AtLimitOfClamped(g, planarDistance, reachDistance) ==
    Greater(reachDistance, FarLimit(g))

\* AtLimit with >= for >
AtLimitInclusive(g, planarDistance, reachDistance) ==
    GreaterEq(planarDistance, FarLimit(g))

\* AtLimit flagging every clamped solve
AtLimitBothSides(g, planarDistance, reachDistance) ==
    reachDistance # planarDistance

\* isAtLimit: planarDistance > this.maxReach * 0.999
AtLimit(g, planarDistance, reachDistance) ==
    Greater(planarDistance, FarLimit(g))

\* the object solve returns, its fields in the order solve computes them
SolveResult(g, t, h, v, planarDistance, reachDistance) ==
    [base          |-> Atan2(t.x, t.z),
     reachDistance |-> reachDistance,
     elbow         |-> ElbowAngle(g, reachDistance),
     shoulder      |-> ShoulderAngle(g, reachDistance, v, h),
     isAtLimit     |-> AtLimit(g, planarDistance, reachDistance)]

\* solve from planarDistance on
SolveClamped(g, t, h, v, planarDistance) ==
    SolveResult(g, t, h, v, planarDistance, ClampReach(g, planarDistance))

\* solve from horizontalDistance and verticalDistance on
SolvePlanar(g, t, h, v) == SolveClamped(g, t, h, v, PlanarDistance(h, v))

\* solve(target)
solve(g, t) ==
    SolvePlanar(g, t, HorizontalDistance(t), VerticalDistance(g, t))

\* totalAngle = shoulder + elbow - Math.PI
TotalAngle(shoulder, elbow) == DoubleSub(DoubleAdd(shoulder, elbow), MathPI)

\* the straight-arm reading of totalAngle: shoulder + elbow
TotalAngleStraight(shoulder, elbow) == DoubleAdd(shoulder, elbow)

\* planarX = lowerX + upperX
PlanarX(lower, upper, shoulder, totalAngle) ==
    DoubleAdd(DoubleMul(lower, Sin(shoulder)), DoubleMul(upper, Sin(totalAngle)))

\* planarY = lowerY + upperY + this.baseHeight
PlanarY(g, lower, upper, shoulder, totalAngle) ==
    DoubleAdd(DoubleAdd(DoubleMul(lower, Cos(shoulder)),
                        DoubleMul(upper, Cos(totalAngle))),
              g.baseHeight)

\* { x: planarX * Math.sin(base), y: planarY, z: planarX * Math.cos(base) }
Rotated(planarX, planarY, base) ==
    [x |-> DoubleMul(planarX, Sin(base)),
     y |-> planarY,
     z |-> DoubleMul(planarX, Cos(base))]

\* forward for a lower arm of the given length and the given totalAngle
ForwardOf(g, lower, base, shoulder, totalAngle) ==
    Rotated(PlanarX(lower, g.upperArmLength, shoulder, totalAngle),
            PlanarY(g, lower, g.upperArmLength, shoulder, totalAngle),
            base)

\* forward with the lower arm counted twice
forwardLongLowerArm(g, a) ==
    ForwardOf(g, DoubleMul(Two, g.lowerArmLength),
              a.base, a.shoulder, TotalAngle(a.shoulder, a.elbow))

\* forward with the upper arm at shoulder + elbow
forwardStraight(g, a) ==
    ForwardOf(g, g.lowerArmLength, a.base, a.shoulder,
              TotalAngleStraight(a.shoulder, a.elbow))

\* forward(angles)
forward(g, a) ==
    ForwardOf(g, g.lowerArmLength, a.base, a.shoulder,
              TotalAngle(a.shoulder, a.elbow))

\* distance >= this.minReach && distance <= this.maxReach
InShell(g, distance) ==
    /\ GreaterEq(distance, g.minReach)
    /\ LessEq(distance, g.maxReach)

\* isReachable with the two bounds excluded
isReachableStrict(g, t) ==
    /\ Greater(PlanarDistance(HorizontalDistance(t), VerticalDistance(g, t)),
                 g.minReach)
    /\ Less(PlanarDistance(HorizontalDistance(t), VerticalDistance(g, t)),
                 g.maxReach)

\* isReachable(target)
isReachable(g, t) ==
    InShell(g, PlanarDistance(HorizontalDistance(t), VerticalDistance(g, t)))

\* ------------------------------------------------------------------------
\* The inputs the callers choose from
\* ------------------------------------------------------------------------

\* coordinates and lengths of the inputs are written in 1/Unit
Unit == 10 ^ 3

\* half the number of grid steps along each axis of the target grid
GridN == 1

GridStep == 7 * Unit

\* new THREE.Vector3(x, y, z), of doubles
Vector3(x, y, z) == [x |-> x, y |-> y, z |-> z]

\* the point { x: px / 1000, y: py / 1000, z: pz / 1000 }, each coordinate
\* the double of its decimal literal
Point(px, py, pz) == Vector3(DoubleOf(px, 3), DoubleOf(py, 3), DoubleOf(pz, 3))

\* the same for coordinates written in ten-thousandths
FinePoint(px, py, pz) ==
    Vector3(DoubleOf(px, 4), DoubleOf(py, 4), DoubleOf(pz, 4))

\* the option { name: n / 1000 }
Option(n) == <<DoubleOf(n, 3)>>

Config(b, l, u) == [baseHeight |-> b, lowerArmLength |-> l, upperArmLength |-> u]

\* The config objects handed to the constructor: options omitted, supplied
\* as zero, equal links, a longer upper arm, negative values, a link of a
\* few thousandths next to a long one, two links of a few thousandths or
\* hundredths.
Configs ==
    { Config(Omitted, Omitted, Omitted),
      Config(Option(0), Option(0), Option(0)),
      Config(Option(6000), Option(8000), Option(8000)),
      Config(Option(2000), Option(9000), Option(13000)),
      Config(Option(-2000), Option(-5000), Omitted),
      Config(Omitted, Option(12000), Option(4)),
      Config(Omitted, Option(4), Option(4)),
      Config(Omitted, Option(13), Option(11)),
      Config(Omitted, Option(20), Option(20)),
      Config(Omitted, Option(50), Option(50)) }

\* a grid of targets around the arm: in front, behind, above, below
GridTargets ==
    { Point(i * GridStep, 4000 + j * GridStep, k * GridStep) :
        i \in -GridN..GridN, j \in -GridN..GridN, k \in -GridN..GridN }

\* targets straight ahead of the pivot of each geometry above, at the
\* distances where its workspace and its clamps begin and end
AxisTargets ==
    { Point(0, 4000, pz) :
        pz \in {1, 2, 7, 8, 9, 10, 11, 12, 13, 23, 24, 25, 1000, 1999, 2000,
                2009, 2010, 2011, 11992, 11994, 11996, 12000, 12004, 12006,
                12007, 20000, 21978, 21979, 22000, 22001, 50000} }
    \cup { Point(0, 6000, pz) :
             pz \in {0, 9, 10, 11, 15984, 15985, 16000, 16001} }
    \cup { Point(0, 2000, pz) :
             pz \in {3999, 4000, 4010, 4011, 21978, 22000} }
    \cup { Point(0, -2000, pz) : pz \in {0, 5000, 15000, 15010} }

\* targets off the axes whose distance from the pivot of one of the
\* geometries is a limit of its workspace or of its clamps when computed
\* without rounding, and one rounding step above or below it as solve and
\* isReachable compute it; targets a few thousandths off the pivot
RoundedTargets ==
    { Point(1200, 11520, 20640), Point(9160, -15880, 1978),
      Point(0, 4560, 1920), Point(-16800, 5120, 14160),
      Point(720, -4080, 12384), Point(0, 6010, 0), Point(0, 6000, 11),
      Point(1200, 9520, 20640), Point(0, 5744, 1408),
      Point(20920, 6600, 4922),
      Point(-3, 3997, -2), Point(-3, 3998, -2), Point(-1, 3998, -1),
      Point(10000, 10000, 0), Point(0, 4000, -5000), Point(-3000, 4000, 0) }
    \cup { FinePoint(3, 100000, 2), FinePoint(4, 100000, -4),
           FinePoint(-4, 30000, -3), FinePoint(0, 60104, 0) }

Targets == GridTargets \cup AxisTargets \cup RoundedTargets

\* joint angles a caller of forward supplies directly
AngleInputs ==
    { [base |-> b, shoulder |-> sh, elbow |-> e] :
        b  \in {DoubleZero, HalfPI, DoubleOf(-7854, 4)},
        sh \in {DoubleZero, DoubleOf(5236, 4), HalfPI, DoubleOf(-5236, 4)},
        e  \in {DoubleZero, HalfPI, MathPI} }

NoPoint == Vector3(DoubleZero, DoubleZero, DoubleZero)

NoAngles ==
    [base |-> DoubleZero, shoulder |-> DoubleZero, elbow |-> DoubleZero]

\* the arguments a caller may hold: a target, or joint angles
Args ==
    { [kind |-> "target", target |-> t, angles |-> NoAngles] : t \in Targets }
    \cup { [kind |-> "angles", target |-> NoPoint, angles |-> a] :
             a \in AngleInputs }

\* the option { name: v } for a double v
OptionOf(v) == <<v>>

\* Config objects at the ends of the range of doubles: the defaults; links
\* of 2^600, whose squares are infinite, and of 2^-600, whose squares and
\* product are zero; links of 2^500 and of 2^-500, and one of each; a
\* negative length; -0 and NaN, which the constructor replaces
ExtremeConfigs ==
    { Config(Omitted, Omitted, Omitted),
      Config(Omitted, OptionOf(PowerOfTwo(600)), OptionOf(PowerOfTwo(600))),
      Config(Omitted, OptionOf(PowerOfTwo(-600)), OptionOf(PowerOfTwo(-600))),
      Config(Omitted, OptionOf(PowerOfTwo(500)), OptionOf(PowerOfTwo(500))),
      Config(Omitted, OptionOf(PowerOfTwo(-500)), OptionOf(PowerOfTwo(-500))),
      Config(Omitted, OptionOf(PowerOfTwo(500)), OptionOf(PowerOfTwo(-500))),
      Config(Omitted, Option(-5000), Omitted),
      Config(Option(6000), OptionOf(NegativeZero), OptionOf(NaN)) }

\* targets on the vertical axis through the pivot, written with +0 and with
\* -0, at and off the height of the pivots; targets off the axis, one with
\* x = -0, one whose squared coordinates are infinite
ExtremeTargets ==
    { Vector3(x, y, z) :
        x \in {DoubleZero, NegativeZero},
        y \in {DoubleOf(4, 0), DoubleOf(6, 0), DoubleOf(-2, 0)},
        z \in {DoubleZero, NegativeZero} }
    \cup { Point(0, 4000, 20000), Point(7000, 11000, -7000),
           Vector3(NegativeZero, DoubleOf(4, 0), DoubleOf(20, 0)),
           Vector3(PowerOfTwo(600), DoubleOf(4, 0), PowerOfTwo(600)) }

ExtremeArgs ==
    { [kind |-> "target", target |-> t, angles |-> NoAngles] :
        t \in ExtremeTargets }
    \cup { [kind |-> "angles", target |-> NoPoint, angles |-> a] :
             a \in { [base |-> HalfPI, shoulder |-> DoubleOf(5236, 4),
                      elbow |-> e] : e \in {DoubleZero, HalfPI} } }

\* ------------------------------------------------------------------------
\* State
\* ------------------------------------------------------------------------

VARIABLES
    config,   \* the config object the solver was constructed from
    solver,   \* the fields of the IKSolver instance
    arg,      \* the argument the caller holds for its calls
    last      \* the latest call made with arg, and what it returned

VARIABLES
    state,    \* RoboticArmApp.state
    stats,    \* RoboticArmApp.stats: frameCount and fps
    tracker,  \* HandTracker: camera (0 for null, else its number), isActive,
              \* and whether hands was closed
    cameras,  \* the Camera objects created so far, in order of creation
    video,    \* videoElement.srcObject: the camera whose stream it holds, 0 for null
    calls,    \* the calls of start() and stop() suspended at their await
    jobs,     \* the continuations ready to run, in the order they will run
    caught,   \* the message of the error toggleCamera caught last
    ui,       \* the DOM elements the app writes
    scene,    \* SceneManager: the rotations of the arm, the target marker,
              \* and whether it was disposed
    pc,       \* the statement the running animation frame is at, "jobs"
              \* while continuations run, else "idle"
    frame,    \* the number of the running or latest frame and what it did
    clicks,   \* the clicks on the camera toggle so far
    inputs,   \* the input events of the sliders so far
    unloads   \* the beforeunload events so far

solverVars == <<config, solver, arg, last>>

appVars ==
    <<state, stats, tracker, cameras, video, calls, jobs, caught, ui, scene,
      pc, frame, clicks, inputs, unloads>>

vars ==
    <<config, solver, arg, last, state, stats, tracker, cameras, video, calls,
      jobs, caught, ui, scene, pc, frame, clicks, inputs, unloads>>

\* no call made with arg yet
NoCall ==
    [op |-> "none", angles |-> NoAngles, reachDistance |-> DoubleZero,
     isAtLimit |-> FALSE, point |-> NoPoint, reachable |-> FALSE,
     chained |-> FALSE]

\* the record of a solve that returned res
SolveCall(res) ==
    [NoCall EXCEPT
       !.op = "solve",
       !.angles = [base |-> res.base, shoulder |-> res.shoulder,
                   elbow |-> res.elbow],
       !.reachDistance = res.reachDistance,
       !.isAtLimit = res.isAtLimit]

\* ------------------------------------------------------------------------
\* RoboticArmApp and HandTracker
\* ------------------------------------------------------------------------

\* bounds of the model: clicks on the toggle, animation frames after the
\* constructor's, hand results counted within one second, input events of
\* the sliders, beforeunload events
MaxClicks == 2

MaxFrames == 1

MaxResults == 1

MaxInputs == 1

MaxUnloads == 1

\* animation frames after the camera was started
MaxTrackedFrames == 2

\* input events of the sliders after the camera was started
MaxTrackedInputs == 1

\* initIK: new IKSolver({baseHeight: 4, lowerArmLength: 12, upperArmLength: 10})
AppConfig == Config(Option(4 * Unit), Option(12 * Unit), Option(10 * Unit))

\* new THREE.Vector3(10, 10, 0)
StartTarget == Vector3(DoubleOf(10, 0), DoubleOf(10, 0), DoubleOf(0, 0))

\* initIK's this.ikSolver
AppSolver == constructor(AppConfig)

\* the first frame's this.ikSolver.solve(this.state.smoothTarget)
FirstSolve == solve(AppSolver, StartTarget)

\* the rotations updateArmAngles takes from it
FirstArm ==
    [base |-> FirstSolve.base, shoulder |-> FirstSolve.shoulder,
     elbow |-> FirstSolve.elbow]

\* Number.prototype.toFixed(1)
ToFixed1(v) == toFixed(v, 1)

\* Number.prototype.toFixed(2)
ToFixed2(v) == toFixed(v, 2)

\* values the smoothing slider is moved to: 0.5 and 0.015, shown as "0.01"
SmoothingValues == {DoubleOf(5, 1), DoubleOf(15, 3)}

\* values the scale slider is moved to: 1.15, shown as "1.1"
ScaleValues == {DoubleOf(115, 2)}

\* values the speed slider is moved to: 1.005, shown as "1.00"
SpeedValues == {DoubleOf(1005, 3)}

\* one component of lerp: this + (v - this) * alpha, each operation rounded
LerpComponent(this, v, alpha) ==
    DoubleAdd(this, DoubleMul(DoubleSub(v, this), alpha))

\* THREE.Vector3.lerp: this += (v - this) * alpha, per component
lerp(this, v, alpha) ==
    Vector3(LerpComponent(this.x, v.x, alpha),
            LerpComponent(this.y, v.y, alpha),
            LerpComponent(this.z, v.z, alpha))

\* smoothing * speed
SmoothingFactor(st) == DoubleMul(st.smoothing, st.speed)

\* HandLandmarks.INDEX_FINGER_TIP
INDEX_FINGER_TIP == 8

\* HandTracker.getLandmarkPosition: <<>> for null, <<p>> for the landmark
\* (landmarks[landmarkIndex] is element landmarkIndex + 1 of the sequence)
getLandmarkPosition(landmarks, landmarkIndex) ==
    IF Len(landmarks) <= landmarkIndex
    THEN <<>>
    ELSE <<landmarks[landmarkIndex + 1]>>

\* Math.max(lo, Math.min(hi, x)) for integers lo and hi
Clamped(lo, hi, x) == DoubleMax(DoubleOf(lo, 0), DoubleMin(DoubleOf(hi, 0), x))

\* the coordinates mapToWorldSpace computes before it clamps them
MappedX(normalized, scale) ==
    DoubleMul(DoubleMul(DoubleSub(DoubleOf(5, 1), normalized.x),
                        DoubleOf(20, 0)),
              scale)

MappedY(normalized, scale) ==
    DoubleMul(DoubleMul(DoubleSub(DoubleOf(1, 0), normalized.y),
                        DoubleOf(20, 0)),
              scale)

MappedZ(normalized, scale) ==
    DoubleAdd(DoubleMul(DoubleMul(DoubleNeg(normalized.z), DoubleOf(20, 0)),
                        scale),
              DoubleOf(10, 0))

\* mapToWorldSpace clamping y into [2, 30]
mapToWorldSpaceTallBox(normalized, scale) ==
    Vector3(Clamped(-15, 15, MappedX(normalized, scale)),
            Clamped(2, 30, MappedY(normalized, scale)),
            Clamped(-5, 20, MappedZ(normalized, scale)))

\* HandTracker.mapToWorldSpace(normalized, scale)
mapToWorldSpace(normalized, scale) ==
    Vector3(Clamped(-15, 15, MappedX(normalized, scale)),
            Clamped(2, 25, MappedY(normalized, scale)),
            Clamped(-5, 20, MappedZ(normalized, scale)))

\* the landmark MediaPipe reports at (px, py, pz) / 1000
Landmark(px, py, pz) ==
    Vector3(DoubleOf(px, 3), DoubleOf(py, 3), DoubleOf(pz, 3))

\* a hand of 21 landmarks with the tip of the index finger at p
Hand(p) ==
    [i \in 1..21 |-> IF i = INDEX_FINGER_TIP + 1 THEN p ELSE Landmark(0, 0, 0)]

\* the results MediaPipe delivers: no hand, a hand cut off before the index
\* finger, a hand inside the mapped box, a hand outside it on every axis
HandResults ==
    { [multiHandLandmarks |-> <<>>],
      [multiHandLandmarks |-> << [i \in 1..5 |-> Landmark(0, 0, 0)] >>],
      [multiHandLandmarks |-> << Hand(Landmark(250, 600, 100)) >>],
      [multiHandLandmarks |-> << Hand(Landmark(0, 0, -1000)) >>] }

\* the constructor's this.state
NewState ==
    [target |-> StartTarget, smoothTarget |-> StartTarget,
     isTracking |-> FALSE, smoothing |-> DoubleOf(1, 1),
     scale |-> DoubleOf(15, 1), speed |-> DoubleOf(8, 1)]

\* the targets onHandResults sets from HandResults, and the first one
AppTargets ==
    {StartTarget}
      \cup {mapToWorldSpace(r.multiHandLandmarks[1][INDEX_FINGER_TIP + 1],
                             scale) :
              r \in {h \in HandResults :
                       /\ Len(h.multiHandLandmarks) > 0
                       /\ Len(h.multiHandLandmarks[1]) > INDEX_FINGER_TIP},
              scale \in {NewState.scale} \cup ScaleValues}

\* the smooth targets one lerp from the first one leads to
AppSmoothTargets ==
    {lerp(StartTarget, t, DoubleMul(smoothing, speed)) :
       t \in AppTargets,
       smoothing \in {NewState.smoothing} \cup SmoothingValues,
       speed \in {NewState.speed} \cup SpeedValues}

\* the app's solver on these targets, each solved once
AppSolves ==
    [t \in AppTargets \cup AppSmoothTargets |-> solve(AppSolver, t)] @@ <<>>

\* g.solve(t), read from AppSolves where it is there
SolveOf(g, t) ==
    IF g = AppSolver /\ t \in DOMAIN AppSolves THEN AppSolves[t]
    ELSE solve(g, t)

\* values of the smoothing slider while tracking: 0, 0.1 and 1.25
TrackingSmoothings == {DoubleOf(0, 0), DoubleOf(1, 1), DoubleOf(125, 2)}

\* values of the speed slider while tracking: 0.8 and 0.4.  With the
\* smoothings above smoothing * speed takes the values 0, 0.04, 0.08, 0.5
\* and 1 (1.25 * 0.8 is 1 in doubles): it stays in [0, 1] and reaches both
\* ends
TrackingSpeeds == {DoubleOf(8, 1), DoubleOf(4, 1)}

\* values of the scale slider while tracking: 1.5 and 0.5
TrackingScales == {DoubleOf(15, 1), DoubleOf(5, 1)}

\* hand results while tracking: a hand near the edge of the image, a hand
\* beyond the upper faces of the mapped box, a hand beyond its lower faces
TrackingResults ==
    { [multiHandLandmarks |-> << Hand(Landmark(10, 500, 0)) >>],
      [multiHandLandmarks |-> << Hand(Landmark(0, 0, -1000)) >>],
      [multiHandLandmarks |-> << Hand(Landmark(1000, 1000, 1000)) >>] }

\* the button and status as toggleCamera shows them after a start
ShowCameraActive(u) ==
    [u EXCEPT !.cameraToggle = [textContent |-> "Stop Camera", active |-> TRUE],
              !.statusText = "Camera Active",
              !.statusDot = TRUE]

\* the button and status as toggleCamera shows them after a stop
ShowSystemIdle(u) ==
    [u EXCEPT !.cameraToggle = [textContent |-> "Start Camera Tracking",
                                active |-> FALSE],
              !.statusText = "System Idle",
              !.statusDot = FALSE]

\* a Camera just created, start() called on it
NewCamera == [start |-> "pending", stopped |-> FALSE, tracks |-> FALSE]

\* the message of the Error HandTracker.start throws
CameraError == "Camera access denied or not available"

\* s without its k-th element
Without(s, k) == SubSeq(s, 1, k - 1) \o SubSeq(s, k + 1, Len(s))

\* the elements the app writes, after the first frame
ConstructedUI ==
    [cameraToggle |-> [textContent |-> "", active |-> FALSE],
     statusText |-> "", statusDot |-> FALSE, fpsCounter |-> <<>>,
     smoothingValue |-> <<>>, scaleValue |-> <<>>, speedValue |-> <<>>,
     posX |-> ToFixed1(StartTarget.x),
     posY |-> ToFixed1(StartTarget.y),
     posZ |-> ToFixed1(StartTarget.z)]

\* the app after new RoboticArmApp(): the constructor ran initUI, initScene,
\* initIK, initHandTracking and, in startAnimationLoop, the first frame
AppConstructed ==
    /\ state = NewState
    /\ stats = [frameCount |-> 0, fps |-> 0]
    /\ tracker = [camera |-> 0, isActive |-> FALSE, closed |-> FALSE]
    /\ cameras = <<>>
    /\ video = 0
    /\ calls = <<>>
    /\ jobs = <<>>
    /\ caught = ""
    /\ ui = ConstructedUI
    /\ scene = [robotArm |-> TRUE, arm |-> FirstArm,
                targetMarker |-> TRUE,
                marker |-> [position |-> StartTarget, turns |-> 1],
                disposed |-> FALSE]
    /\ pc = "idle"
    /\ frame = [number |-> 0, from |-> StartTarget, solves |-> 1,
                rendered |-> [arm |-> FirstArm, marker |-> StartTarget,
                              number |-> 0]]
    /\ clicks = 0
    /\ inputs = 0
    /\ unloads = 0

\* a solver under test, next to an app that was constructed and does nothing
Init ==
    /\ config \in Configs
    /\ solver = constructor(config)
    /\ arg \in Args
    /\ last = NoCall
    /\ AppConstructed

\* the caller turns to another argument
NextArg(a) ==
    /\ a # arg
    /\ arg' = a
    /\ last' = NoCall
    /\ UNCHANGED <<config, solver>>
    /\ UNCHANGED appVars

\* Solve keeping the clamped distance in a field of the solver
SolveKeepingReach ==
    /\ arg.kind = "target"
    /\ last' = SolveCall(solve(solver, arg.target))
    /\ solver' = [solver EXCEPT !.maxReach = last'.reachDistance]
    /\ UNCHANGED <<config, arg>>
    /\ UNCHANGED appVars

\* the caller calls solve(arg.target)
Solve ==
    /\ arg.kind = "target"
    /\ last' = SolveCall(solve(solver, arg.target))
    /\ UNCHANGED <<config, solver, arg>>
    /\ UNCHANGED appVars

\* the caller calls forward(arg.angles)
Forward ==
    /\ arg.kind = "angles"
    /\ last' = [NoCall EXCEPT
                  !.op = "forward",
                  !.angles = arg.angles,
                  !.point = forward(solver, arg.angles)]
    /\ UNCHANGED <<config, solver, arg>>
    /\ UNCHANGED appVars

\* the caller hands the object solve just returned to forward
ForwardSolved ==
    /\ last.op = "solve"
    /\ last' = [last EXCEPT
                  !.op = "forward",
                  !.point = forward(solver, last.angles),
                  !.chained = TRUE]
    /\ UNCHANGED <<config, solver, arg>>
    /\ UNCHANGED appVars

\* the caller calls isReachable(arg.target)
IsReachable ==
    /\ arg.kind = "target"
    /\ last' = [NoCall EXCEPT
                  !.op = "isReachable",
                  !.reachable = isReachable(solver, arg.target)]
    /\ UNCHANGED <<config, solver, arg>>
    /\ UNCHANGED appVars

Next ==
    \/ \E a \in Args : NextArg(a)
    \/ Solve
    \/ Forward
    \/ ForwardSolved
    \/ IsReachable

Spec == Init /\ [][Next]_vars

\* the same solver and calls at the ends of the range of doubles: a solver
\* constructed from any of ExtremeConfigs, called with any of ExtremeArgs
ExtremeInit ==
    /\ config \in ExtremeConfigs
    /\ solver = constructor(config)
    /\ arg \in ExtremeArgs
    /\ last = NoCall
    /\ AppConstructed

ExtremeNext ==
    \/ \E a \in ExtremeArgs : NextArg(a)
    \/ Solve
    \/ Forward
    \/ ForwardSolved
    \/ IsReachable

ExtremeSpec == ExtremeInit /\ [][ExtremeNext]_vars

\* ------------------------------------------------------------------------
\* The app: camera toggle, hand results, sliders, animation frames
\* ------------------------------------------------------------------------

\* the app as constructed, with its own solver and the solve of the first frame
AppInit ==
    /\ config = AppConfig
    /\ solver = AppSolver
    /\ arg = [kind |-> "target", target |-> StartTarget, angles |-> NoAngles]
    /\ last = SolveCall(FirstSolve)
    /\ AppConstructed

\* a Camera whose frames reach MediaPipe: started and not stopped
Running(c) == cameras[c].start = "resolved" /\ ~cameras[c].stopped

\* no handler, frame or continuation is running and none is ready to run:
\* the browser may dispatch an event
Idle == pc = "idle" /\ jobs = <<>>

\* a promise settles on its own or in the same turn of the event loop as the
\* promises whose continuations are ready, before any of them has run
Settling == pc = "idle"

\* the continuation at the head of jobs runs: the one of step
Resuming(step) ==
    /\ pc \in {"idle", "jobs"}
    /\ jobs # <<>>
    /\ Head(jobs).step = step

\* the continuation at the head of jobs ran and made the continuations
\* more ready
Resumed(more) ==
    /\ jobs' = Tail(jobs) \o more
    /\ pc' = IF Tail(jobs) \o more = <<>> THEN "idle" ELSE "jobs"

\* HandTracker.stop after its await: stop the tracks of the stream the video
\* element holds, clear srcObject
TracksStopped(cams) ==
    IF video = 0 THEN cams ELSE [cams EXCEPT ![video].tracks = FALSE]

\* click on the camera toggle: toggleCamera up to its first pending await.
\* start() and stop() return at once when there is nothing to do, and
\* toggleCamera then continues before any other event.
ToggleCamera ==
    /\ Idle
    /\ clicks < MaxClicks
    /\ clicks' = clicks + 1
    /\ IF ~state.isTracking
       THEN IF tracker.isActive
            THEN /\ state' = [state EXCEPT !.isTracking = TRUE]
                 /\ ui' = ShowCameraActive(ui)
                 /\ UNCHANGED <<tracker, cameras, video, calls>>
            ELSE /\ cameras' = Append(cameras, NewCamera)
                 /\ tracker' = [tracker EXCEPT !.camera = Len(cameras) + 1]
                 /\ calls' = Append(calls, [by |-> "toggleCamera",
                                            branch |-> "start",
                                            camera |-> Len(cameras) + 1])
                 /\ UNCHANGED <<state, ui, video>>
       ELSE IF ~tracker.isActive
            THEN /\ state' = [state EXCEPT !.isTracking = FALSE]
                 /\ ui' = ShowSystemIdle(ui)
                 /\ UNCHANGED <<tracker, cameras, video, calls>>
            ELSE IF tracker.camera # 0
                 THEN /\ calls' = Append(calls, [by |-> "toggleCamera",
                                                 branch |-> "stop",
                                                 camera |-> tracker.camera])
                      /\ UNCHANGED <<state, ui, tracker, cameras, video>>
                 ELSE /\ cameras' = TracksStopped(cameras)
                      /\ video' = 0
                      /\ tracker' = [tracker EXCEPT !.isActive = FALSE]
                      /\ state' = [state EXCEPT !.isTracking = FALSE]
                      /\ ui' = ShowSystemIdle(ui)
                      /\ UNCHANGED calls
    /\ UNCHANGED <<solverVars, stats, jobs, caught, scene, pc, frame, inputs,
                   unloads>>

\* beforeunload: RoboticArmApp.dispose calls HandTracker.dispose, which calls
\* stop() without awaiting it and closes hands, and SceneManager.dispose
Dispose ==
    /\ Idle
    /\ unloads < MaxUnloads
    /\ unloads' = unloads + 1
    /\ IF ~tracker.isActive
       THEN /\ tracker' = [tracker EXCEPT !.closed = TRUE]
            /\ UNCHANGED <<cameras, video, calls>>
       ELSE IF tracker.camera # 0
            THEN /\ calls' = Append(calls, [by |-> "dispose",
                                            branch |-> "stop",
                                            camera |-> tracker.camera])
                 /\ tracker' = [tracker EXCEPT !.closed = TRUE]
                 /\ UNCHANGED <<cameras, video>>
            ELSE /\ cameras' = TracksStopped(cameras)
                 /\ video' = 0
                 /\ tracker' = [tracker EXCEPT !.isActive = FALSE,
                                               !.closed = TRUE]
                 /\ UNCHANGED calls
    /\ scene' = [scene EXCEPT !.disposed = TRUE]
    /\ UNCHANGED <<solverVars, state, stats, jobs, caught, ui, pc, frame,
                   clicks, inputs>>

\* camera.start() of the k-th suspended call resolves: the stream is on the
\* video element, and start() is ready to continue
CameraStarted(k) ==
    /\ Settling
    /\ calls[k].branch = "start"
    /\ LET c == calls[k].camera
       IN  /\ cameras' = [cameras EXCEPT ![c].start = "resolved",
                                         ![c].tracks = TRUE]
           /\ video' = c
    /\ jobs' = Append(jobs, [step |-> "start", by |-> calls[k].by])
    /\ calls' = Without(calls, k)
    /\ UNCHANGED <<solverVars, state, stats, tracker, caught, ui, scene, pc,
                   frame, clicks, inputs, unloads>>

\* camera.start() of the k-th suspended call rejects: start() is ready to
\* continue in its catch
CameraStartFailed(k) ==
    /\ Settling
    /\ calls[k].branch = "start"
    /\ cameras' = [cameras EXCEPT ![calls[k].camera].start = "rejected"]
    /\ jobs' = Append(jobs, [step |-> "start catch", by |-> calls[k].by])
    /\ calls' = Without(calls, k)
    /\ UNCHANGED <<solverVars, state, stats, tracker, video, caught, ui,
                   scene, pc, frame, clicks, inputs, unloads>>

\* camera.stop() of the k-th suspended call resolves: stop() is ready to
\* continue
CameraStopped(k) ==
    /\ Settling
    /\ calls[k].branch = "stop"
    /\ cameras' = [cameras EXCEPT ![calls[k].camera].stopped = TRUE]
    /\ jobs' = Append(jobs, [step |-> "stop", by |-> calls[k].by])
    /\ calls' = Without(calls, k)
    /\ UNCHANGED <<solverVars, state, stats, tracker, video, caught, ui,
                   scene, pc, frame, clicks, inputs, unloads>>

\* camera.stop() of the k-th suspended call rejects: stop() is ready to
\* continue in its catch
CameraStopFailed(k) ==
    /\ Settling
    /\ calls[k].branch = "stop"
    /\ jobs' = Append(jobs, [step |-> "stop catch", by |-> calls[k].by])
    /\ calls' = Without(calls, k)
    /\ UNCHANGED <<solverVars, state, stats, tracker, cameras, video, caught,
                   ui, scene, pc, frame, clicks, inputs, unloads>>

\* HandTracker.start after its await: isActive = true, return true; the
\* toggleCamera that awaits it is ready to continue
StartResumed ==
    /\ Resuming("start")
    /\ tracker' = [tracker EXCEPT !.isActive = TRUE]
    /\ Resumed(<< [step |-> "toggle start", by |-> Head(jobs).by] >>)
    /\ UNCHANGED <<solverVars, state, stats, cameras, video, calls, caught,
                   ui, scene, frame, clicks, inputs, unloads>>

\* HandTracker.start in its catch: it logs the error and throws its own; the
\* toggleCamera that awaits it is ready to continue in its catch
StartThrew ==
    /\ Resuming("start catch")
    /\ Resumed(<< [step |-> "toggle catch", by |-> Head(jobs).by] >>)
    /\ UNCHANGED <<solverVars, state, stats, tracker, cameras, video, calls,
                   caught, ui, scene, frame, clicks, inputs, unloads>>

\* the continuations ready after stop() returned: the one of toggleCamera,
\* none when dispose called stop()
AfterStop(by) ==
    IF by = "toggleCamera" THEN << [step |-> "toggle stop", by |-> by] >>
    ELSE <<>>

\* HandTracker.stop after its await: it stops the tracks of the stream on
\* the video element, clears srcObject and isActive, and returns
StopResumed ==
    /\ Resuming("stop")
    /\ cameras' = TracksStopped(cameras)
    /\ video' = 0
    /\ tracker' = [tracker EXCEPT !.isActive = FALSE]
    /\ Resumed(AfterStop(Head(jobs).by))
    /\ UNCHANGED <<solverVars, state, stats, calls, caught, ui, scene, frame,
                   clicks, inputs, unloads>>

\* HandTracker.stop in its catch: it logs the error and returns with
\* isActive as it was
StopCaught ==
    /\ Resuming("stop catch")
    /\ Resumed(AfterStop(Head(jobs).by))
    /\ UNCHANGED <<solverVars, state, stats, tracker, cameras, video, calls,
                   caught, ui, scene, frame, clicks, inputs, unloads>>

\* toggleCamera after await handTracker.start(): it shows the camera active
ToggleStarted ==
    /\ Resuming("toggle start")
    /\ state' = [state EXCEPT !.isTracking = TRUE]
    /\ ui' = ShowCameraActive(ui)
    /\ Resumed(<<>>)
    /\ UNCHANGED <<solverVars, stats, tracker, cameras, video, calls, caught,
                   scene, frame, clicks, inputs, unloads>>

\* toggleCamera in its catch: it logs the error and alerts
ToggleCaught ==
    /\ Resuming("toggle catch")
    /\ caught' = CameraError
    /\ Resumed(<<>>)
    /\ UNCHANGED <<solverVars, state, stats, tracker, cameras, video, calls,
                   ui, scene, frame, clicks, inputs, unloads>>

\* toggleCamera after await handTracker.stop(): it shows the system idle
ToggleStopped ==
    /\ Resuming("toggle stop")
    /\ state' = [state EXCEPT !.isTracking = FALSE]
    /\ ui' = ShowSystemIdle(ui)
    /\ Resumed(<<>>)
    /\ UNCHANGED <<solverVars, stats, tracker, cameras, video, calls, caught,
                   scene, frame, clicks, inputs, unloads>>

\* an input event of a slider, at most limit of them
InputWithin(limit) ==
    /\ Idle
    /\ inputs < limit
    /\ inputs' = inputs + 1
    /\ UNCHANGED <<solverVars, stats, tracker, cameras, video, calls, jobs,
                   caught, scene, pc, frame, clicks, unloads>>

\* input on the smoothing slider: state.smoothing = parseFloat(value), shown
\* to two decimals
SmoothingInput(value, limit) ==
    /\ InputWithin(limit)
    /\ value # state.smoothing
    /\ state' = [state EXCEPT !.smoothing = value]
    /\ ui' = [ui EXCEPT !.smoothingValue = <<ToFixed2(value)>>]

\* input on the scale slider: state.scale = parseFloat(value), shown to one
\* decimal
ScaleInput(value, limit) ==
    /\ InputWithin(limit)
    /\ value # state.scale
    /\ state' = [state EXCEPT !.scale = value]
    /\ ui' = [ui EXCEPT !.scaleValue = <<ToFixed1(value)>>]

\* input on the speed slider: state.speed = parseFloat(value), shown to two
\* decimals
SpeedInput(value, limit) ==
    /\ InputWithin(limit)
    /\ value # state.speed
    /\ state' = [state EXCEPT !.speed = value]
    /\ ui' = [ui EXCEPT !.speedValue = <<ToFixed2(value)>>]

\* onHandResults(results), from a running Camera through hands; elapsed:
\* updateFPS finds that a second has passed since stats.lastTime
OnHandResults(results, elapsed) ==
    /\ Idle
    /\ ~tracker.closed
    /\ \E c \in 1..Len(cameras) : Running(c)
    /\ elapsed \/ stats.frameCount < MaxResults
    /\ LET counted == stats.frameCount + 1
           shown   == IF elapsed THEN [ui EXCEPT !.fpsCounter = <<counted>>]
                      ELSE ui
           hands   == results.multiHandLandmarks
       IN  /\ stats' = IF elapsed THEN [frameCount |-> 0, fps |-> counted]
                       ELSE [stats EXCEPT !.frameCount = counted]
           /\ IF Len(hands) > 0
              THEN LET normalized ==
                         getLandmarkPosition(hands[1], INDEX_FINGER_TIP)
                   IN  IF normalized # <<>>
                       THEN /\ state' = [state EXCEPT !.target =
                                           mapToWorldSpace(normalized[1],
                                                           state.scale)]
                            /\ ui' = IF state.isTracking
                                     THEN [shown EXCEPT
                                             !.statusText = "Tracking Hand",
                                             !.statusDot = TRUE]
                                     ELSE shown
                       ELSE /\ state' = state
                            /\ ui' = shown
              ELSE /\ state' = state
                   /\ ui' = IF state.isTracking
                            THEN [shown EXCEPT !.statusText = "Searching...",
                                               !.statusDot = FALSE]
                            ELSE shown
    /\ UNCHANGED <<solverVars, tracker, cameras, video, calls, jobs, caught,
                   scene, pc, frame, clicks, inputs, unloads>>

\* the browser calls animate: requestAnimationFrame(animate), then
\* updateSimulation begins
AnimateWithin(limit) ==
    /\ Idle
    /\ frame.number < limit
    /\ frame' = [frame EXCEPT !.number = frame.number + 1,
                              !.from = state.smoothTarget,
                              !.solves = 0]
    /\ pc' = "lerp"
    /\ UNCHANGED <<solverVars, state, stats, tracker, cameras, video, calls,
                   jobs, caught, ui, scene, clicks, inputs, unloads>>

Animate == AnimateWithin(MaxFrames)

\* updateSimulation: smoothTarget.lerp(target, smoothing * speed)
LerpSmoothTarget ==
    /\ pc = "lerp"
    /\ state' = [state EXCEPT !.smoothTarget =
                   lerp(state.smoothTarget, state.target, SmoothingFactor(state))]
    /\ pc' = "show"
    /\ UNCHANGED <<solverVars, stats, tracker, cameras, video, calls, jobs,
                   caught, ui, scene, frame, clicks, inputs, unloads>>

\* updateSimulation: posX, posY, posZ show smoothTarget to one decimal
ShowPosition ==
    /\ pc = "show"
    /\ ui' = [ui EXCEPT !.posX = ToFixed1(state.smoothTarget.x),
                        !.posY = ToFixed1(state.smoothTarget.y),
                        !.posZ = ToFixed1(state.smoothTarget.z)]
    /\ pc' = "solve"
    /\ UNCHANGED <<solverVars, state, stats, tracker, cameras, video, calls,
                   jobs, caught, scene, frame, clicks, inputs, unloads>>

\* SolveIK solving the raw target
SolveIKOfRawTarget ==
    /\ pc = "solve"
    /\ arg' = [kind |-> "target", target |-> state.target,
               angles |-> NoAngles]
    /\ last' = SolveCall(SolveOf(solver, state.target))
    /\ frame' = [frame EXCEPT !.solves = frame.solves + 1]
    /\ pc' = "arm"
    /\ UNCHANGED <<config, solver, state, stats, tracker, cameras, video,
                   calls, jobs, caught, ui, scene, clicks, inputs, unloads>>

\* updateSimulation: angles = ikSolver.solve(smoothTarget)
SolveIK ==
    /\ pc = "solve"
    /\ arg' = [kind |-> "target", target |-> state.smoothTarget,
               angles |-> NoAngles]
    /\ last' = SolveCall(SolveOf(solver, state.smoothTarget))
    /\ frame' = [frame EXCEPT !.solves = frame.solves + 1]
    /\ pc' = "arm"
    /\ UNCHANGED <<config, solver, state, stats, tracker, cameras, video,
                   calls, jobs, caught, ui, scene, clicks, inputs, unloads>>

\* updateSimulation: sceneManager.updateArmAngles(angles)
UpdateArmAngles ==
    /\ pc = "arm"
    /\ scene' = IF scene.robotArm THEN [scene EXCEPT !.arm = last.angles]
                ELSE scene
    /\ pc' = "marker"
    /\ UNCHANGED <<solverVars, state, stats, tracker, cameras, video, calls,
                   jobs, caught, ui, frame, clicks, inputs, unloads>>

\* updateSimulation: sceneManager.updateTargetMarker(smoothTarget)
UpdateTargetMarker ==
    /\ pc = "marker"
    /\ scene' = IF scene.targetMarker
                THEN [scene EXCEPT !.marker =
                        [position |-> state.smoothTarget,
                         turns |-> scene.marker.turns + 1]]
                ELSE scene
    /\ pc' = "render"
    /\ UNCHANGED <<solverVars, state, stats, tracker, cameras, video, calls,
                   jobs, caught, ui, frame, clicks, inputs, unloads>>

\* animate: sceneManager.render() draws the scene as it is
Render ==
    /\ pc = "render"
    /\ frame' = [frame EXCEPT !.rendered =
                   [arm |-> scene.arm, marker |-> scene.marker.position,
                    number |-> frame.number]]
    /\ pc' = "idle"
    /\ UNCHANGED <<solverVars, state, stats, tracker, cameras, video, calls,
                   jobs, caught, ui, scene, clicks, inputs, unloads>>

AppNext ==
    \/ ToggleCamera
    \/ Dispose
    \/ \E k \in 1..Len(calls) : CameraStarted(k)
    \/ \E k \in 1..Len(calls) : CameraStartFailed(k)
    \/ \E k \in 1..Len(calls) : CameraStopped(k)
    \/ \E k \in 1..Len(calls) : CameraStopFailed(k)
    \/ StartResumed
    \/ StartThrew
    \/ StopResumed
    \/ StopCaught
    \/ ToggleStarted
    \/ ToggleCaught
    \/ ToggleStopped
    \/ \E r \in HandResults, elapsed \in BOOLEAN : OnHandResults(r, elapsed)
    \/ \E value \in SmoothingValues : SmoothingInput(value, MaxInputs)
    \/ \E value \in ScaleValues : ScaleInput(value, MaxInputs)
    \/ \E value \in SpeedValues : SpeedInput(value, MaxInputs)
    \/ Animate
    \/ LerpSmoothTarget
    \/ ShowPosition
    \/ SolveIK
    \/ UpdateArmAngles
    \/ UpdateTargetMarker
    \/ Render

AppSpec == AppInit /\ [][AppNext]_vars

\* ------------------------------------------------------------------------
\* The app while it tracks: sliders, hand results, animation frames
\* ------------------------------------------------------------------------

\* the app after one click on the camera toggle whose camera.start()
\* resolved: the state AppSpec reaches by ToggleCamera, CameraStarted(1),
\* StartResumed and ToggleStarted
TrackingInit ==
    /\ config = AppConfig
    /\ solver = AppSolver
    /\ arg = [kind |-> "target", target |-> StartTarget,
              angles |-> NoAngles]
    /\ last = SolveCall(FirstSolve)
    /\ state = [NewState EXCEPT !.isTracking = TRUE]
    /\ stats = [frameCount |-> 0, fps |-> 0]
    /\ tracker = [camera |-> 1, isActive |-> TRUE, closed |-> FALSE]
    /\ cameras = << [NewCamera EXCEPT !.start = "resolved", !.tracks = TRUE] >>
    /\ video = 1
    /\ calls = <<>>
    /\ jobs = <<>>
    /\ caught = ""
    /\ ui = ShowCameraActive(ConstructedUI)
    /\ scene = [robotArm |-> TRUE, arm |-> FirstArm,
                targetMarker |-> TRUE,
                marker |-> [position |-> StartTarget, turns |-> 1],
                disposed |-> FALSE]
    /\ pc = "idle"
    /\ frame = [number |-> 0, from |-> StartTarget, solves |-> 1,
                rendered |-> [arm |-> FirstArm, marker |-> StartTarget,
                              number |-> 0]]
    /\ clicks = 1
    /\ inputs = 0
    /\ unloads = 0

TrackingNext ==
    \/ \E value \in TrackingSmoothings : SmoothingInput(value, MaxTrackedInputs)
    \/ \E value \in TrackingScales : ScaleInput(value, MaxTrackedInputs)
    \/ \E value \in TrackingSpeeds : SpeedInput(value, MaxTrackedInputs)
    \/ \E r \in TrackingResults, elapsed \in BOOLEAN : OnHandResults(r, elapsed)
    \/ AnimateWithin(MaxTrackedFrames)
    \/ LerpSmoothTarget
    \/ ShowPosition
    \/ SolveIK
    \/ UpdateArmAngles
    \/ UpdateTargetMarker
    \/ Render

TrackingSpec == TrackingInit /\ [][TrackingNext]_vars

\* ------------------------------------------------------------------------
\* Properties
\* ------------------------------------------------------------------------

\* the tolerance of a comparison of two coordinates: 1e-6
Tol == DoubleDiv(One, DoubleMul(DoubleOf(1000, 0), DoubleOf(1000, 0)))

\* |a - b| <= Tol
Near(a, b) == LessEq(DoubleAbs(DoubleSub(a, b)), Tol)

Close(p, q) ==
    /\ Near(p.x, q.x)
    /\ Near(p.y, q.y)
    /\ Near(p.z, q.z)

DefaultConfig == Config(Omitted, Omitted, Omitted)

\* a solve of arg.target has returned
Solved == last.op = "solve"

\* the distance of the point p from the shoulder pivot (0, baseHeight, 0),
\* as solve and isReachable compute planarDistance
PivotDistance(p) ==
    PlanarDistance(HorizontalDistance(p), VerticalDistance(solver, p))

\* the requested, unclamped planarDistance of arg.target
Requested == PivotDistance(arg.target)

\* the requested distance is below, above, exactly the length f
Below(f) == Less(Requested, f)

Above(f) == Greater(Requested, f)

At(f) == Requested = f

\* minReach, maxReach, maxReach x 0.999 and minReach + 0.01 as the claims
\* write them
MinReach == solver.minReach

MaxReach == solver.maxReach

MaxReachTimes0999 == DoubleMul(solver.maxReach, DoubleOf(999, 3))

MinReachPlus001 == DoubleAdd(solver.minReach, DoubleOf(1, 2))

\* the three lengths of the geometry are positive
PositiveLengths ==
    /\ Greater(solver.baseHeight, DoubleZero)
    /\ Greater(solver.lowerArmLength, DoubleZero)
    /\ Greater(solver.upperArmLength, DoubleZero)

\* the clamping interval [minReach + 0.01, maxReach x 0.999] is not empty
ClampIntervalNonEmpty == LessEq(MinReachPlus001, MaxReachTimes0999)

\* C1: for a geometry of positive lengths and a target whose distance from
\* the shoulder pivot lies in [minReach, maxReach], forward(solve(target))
\* is the target again (within the tolerance).
RoundTrip ==
    ( /\ last.op = "forward"
      /\ last.chained
      /\ PositiveLengths
      /\ ~Below(MinReach)
      /\ ~Above(MaxReach) )
    => Close(last.point, arg.target)

\* C2: isReachable(target) is true exactly when
\* minReach <= planarDistance <= maxReach, the distance taken unclamped.
ReachableExactlyInShell ==
    last.op = "isReachable"
    => /\ last.reachable = (~Below(MinReach) /\ ~Above(MaxReach))
       /\ Below(MinReach) => ~last.reachable
       /\ Above(MaxReach) => ~last.reachable
       /\ (At(MaxReach) /\ LessEq(MinReach, MaxReach))
            => last.reachable
       /\ (At(MinReach) /\ LessEq(MinReach, MaxReach))
            => last.reachable

\* C2 witness: a target at exactly maxReach was found reachable
ReachableAtMaxReach ==
    /\ last.op = "isReachable"
    /\ PositiveLengths
    /\ At(MaxReach)
    /\ last.reachable

\* C3: solve returns isAtLimit = true if and only if the unclamped
\* planarDistance is strictly greater than maxReach x 0.999.
AtLimitIffRequestBeyondFar ==
    Solved => (last.isAtLimit = Above(MaxReachTimes0999))

\* C3 witness: a clamped solve flagged at the limit
AtLimitOfClampedSolve ==
    /\ Solved
    /\ last.isAtLimit
    /\ Above(last.reachDistance)

\* C4 as claimed: isAtLimit = false exactly when the returned reachDistance
\* equals the requested planarDistance.
NotAtLimitIffExact ==
    Solved => ((~last.isAtLimit) = (last.reachDistance = Requested))

\* C4 as amended: in a geometry whose clamping interval is not empty, for a
\* target at planarDistance >= minReach + 0.01, isAtLimit = false exactly
\* when reachDistance equals planarDistance; a nearer target is clamped up
\* to minReach + 0.01 and still has isAtLimit = false.  For the default
\* geometry, target (0, 4, 20) gives reachDistance 20 and isAtLimit false.
NotAtLimitIffExactBeyondNear ==
    /\ (Solved /\ ClampIntervalNonEmpty /\ ~Below(MinReachPlus001))
         => ((~last.isAtLimit) = (last.reachDistance = Requested))
    /\ (Solved /\ ClampIntervalNonEmpty /\ Below(MinReachPlus001))
         => ( /\ ~last.isAtLimit
              /\ last.reachDistance = MinReachPlus001
              /\ last.reachDistance # Requested )
    /\ (Solved /\ config = DefaultConfig /\ arg.target = Point(0, 4000, 20000))
         => (last.reachDistance = DoubleOf(20, 0) /\ ~last.isAtLimit)

\* C4 witness: the default geometry solved target (0, 4, 20) exactly
ExactSolveOfDefault ==
    /\ Solved
    /\ config = DefaultConfig
    /\ arg.target = Point(0, 4000, 20000)
    /\ last.reachDistance = Requested
    /\ ~last.isAtLimit

\* C5 as claimed: for a geometry of three positive lengths, reachDistance
\* lies in [minReach + 0.01, maxReach x 0.999].
ReachInClampInterval ==
    (Solved /\ PositiveLengths)
    => /\ LessEq(MinReachPlus001, last.reachDistance)
       /\ LessEq(last.reachDistance, MaxReachTimes0999)

\* C5 as amended: reachDistance is never below minReach + 0.01; it lies in
\* [minReach + 0.01, maxReach x 0.999] when that interval is not empty, and
\* is minReach + 0.01 when it is empty.
ReachInNonEmptyClampInterval ==
    Solved
    => /\ LessEq(MinReachPlus001, last.reachDistance)
       /\ ClampIntervalNonEmpty
            => LessEq(last.reachDistance, MaxReachTimes0999)
       /\ ~ClampIntervalNonEmpty => last.reachDistance = MinReachPlus001

\* C5 witness: a target nearer than minReach + 0.01 was clamped up
ClampedUpToNear ==
    /\ Solved
    /\ PositiveLengths
    /\ ClampIntervalNonEmpty
    /\ Below(MinReachPlus001)
    /\ last.reachDistance = MinReachPlus001

\* the elbow angle solve returned is the one of the distance
\* maxReach x 0.999, and no solve of this geometry returns a smaller one
\* (the elbow angle falls as reachDistance grows, and reachDistance is at
\* most maxReach x 0.999 when the clamping interval is not empty)
SmallestElbow == last.angles.elbow = ElbowAngle(solver, MaxReachTimes0999)

NoElbowBelowSmallest ==
    (Solved /\ ClampIntervalNonEmpty)
    => GreaterEq(last.angles.elbow,
                 ElbowAngle(solver, MaxReachTimes0999))

\* the elbow angle solve returned is the one of the distance
\* minReach + 0.01, and no solve of this geometry returns a larger one
LargestElbow == last.angles.elbow = ElbowAngle(solver, MinReachPlus001)

NoElbowAboveLargest ==
    Solved
    => LessEq(last.angles.elbow, ElbowAngle(solver, MinReachPlus001))

\* C6 as claimed: a target at or beyond maxReach is solved with
\* isAtLimit = true and reachDistance = maxReach x 0.999, the smallest elbow
\* angle solve returns (read for geometries of positive lengths).
FullExtension ==
    (Solved /\ PositiveLengths /\ ~Below(MaxReach))
    => /\ last.isAtLimit
       /\ last.reachDistance = MaxReachTimes0999
       /\ SmallestElbow

\* C6 as amended: the same, in a geometry whose clamping interval
\* [minReach + 0.01, maxReach x 0.999] is not empty; for the default
\* geometry, target (0, 4, 22) gives reachDistance 21.978.
FullExtensionInNonEmptyInterval ==
    /\ (Solved /\ ClampIntervalNonEmpty /\ ~Below(MaxReach))
         => /\ last.isAtLimit
            /\ last.reachDistance = MaxReachTimes0999
            /\ SmallestElbow
    /\ NoElbowBelowSmallest
    /\ (Solved /\ config = DefaultConfig /\ arg.target = Point(0, 4000, 22000))
         => (last.reachDistance = DoubleOf(21978, 3) /\ last.isAtLimit)

\* C6 witness: the default geometry solved target (0, 4, 22) at 21.978
FullExtensionOfDefault ==
    /\ Solved
    /\ config = DefaultConfig
    /\ arg.target = Point(0, 4000, 22000)
    /\ At(MaxReach)
    /\ last.isAtLimit
    /\ last.reachDistance = DoubleOf(21978, 3)

\* C7: a target at or below minReach + 0.01 (minReach and the pivot itself
\* included) is solved with reachDistance = minReach + 0.01, the largest
\* elbow angle solve returns; for the default geometry, target (0, 6, 0)
\* gives planarDistance 2, reachDistance 2.01 and base 0.
FullFold ==
    /\ (Solved /\ ~Above(MinReachPlus001))
         => /\ last.reachDistance = MinReachPlus001
            /\ LargestElbow
    /\ NoElbowAboveLargest
    /\ (Solved /\ config = DefaultConfig /\ arg.target = Point(0, 6000, 0))
         => /\ Requested = DoubleOf(2, 0)
            /\ last.reachDistance = DoubleOf(201, 2)
            /\ last.angles.base = DoubleZero

\* C7 witness: the default geometry solved target (0, 6, 0) at 2.01
FullFoldOfDefault ==
    /\ Solved
    /\ config = DefaultConfig
    /\ arg.target = Point(0, 6000, 0)
    /\ At(MinReach)
    /\ last.reachDistance = DoubleOf(201, 2)
    /\ Greater(last.angles.elbow, DoubleSub(MathPI, DoubleOf(1, 1)))

\* lo <= x <= hi
Between(x, lo, hi) == GreaterEq(x, lo) /\ LessEq(x, hi)

\* solve returned a result with every field a number in its range
CompleteResult ==
    /\ Between(last.angles.base, DoubleNeg(MathPI), MathPI)
    /\ Between(last.angles.elbow, DoubleZero, MathPI)
    /\ Between(last.angles.shoulder, DoubleNeg(MathPI), MathPI)
    /\ Greater(last.reachDistance, DoubleZero)
    /\ last.isAtLimit \in BOOLEAN

\* C8 as claimed: solve returns a complete result for every target, and a
\* target isReachable rejects is solved at the clamping bound nearest to it:
\* maxReach x 0.999 when too far, minReach + 0.01 when too near (read for
\* geometries of positive lengths).
RejectedSolvedAtNearestBound ==
    (Solved /\ PositiveLengths)
    => /\ CompleteResult
       /\ (~isReachable(solver, arg.target) /\ Above(MaxReach))
            => last.reachDistance = MaxReachTimes0999
       /\ (~isReachable(solver, arg.target) /\ Below(MinReach))
            => last.reachDistance = MinReachPlus001

\* C8 as amended: solve returns a complete result for every target; in a
\* geometry whose clamping interval is not empty, a target isReachable
\* rejects is solved at maxReach x 0.999 when too far and at
\* minReach + 0.01 when too near.
RejectedSolvedAtNearestBoundOfInterval ==
    Solved
    => /\ CompleteResult
       /\ ( /\ ClampIntervalNonEmpty
            /\ ~isReachable(solver, arg.target)
            /\ Above(MaxReach) )
            => last.reachDistance = MaxReachTimes0999
       /\ ( /\ ClampIntervalNonEmpty
            /\ ~isReachable(solver, arg.target)
            /\ Below(MinReach) )
            => last.reachDistance = MinReachPlus001

\* C8 witness: a target beyond maxReach, rejected by isReachable, was solved
\* at maxReach x 0.999
FarTargetSolvedAtFarLimit ==
    /\ Solved
    /\ ClampIntervalNonEmpty
    /\ ~isReachable(solver, arg.target)
    /\ Above(DoubleAdd(MaxReach, DoubleOf(1, 0)))
    /\ last.reachDistance = MaxReachTimes0999

\* the field the constructor must store for an option: the default when the
\* option is omitted, the supplied value otherwise
AsSupplied(opt, dflt) == IF opt = Omitted THEN dflt ELSE opt[1]

\* C9: the constructor takes each option exactly as supplied and substitutes
\* the defaults 4, 12, 10 only for omitted options; a supplied zero or
\* negative value is not replaced.
ConfigTakenAsSupplied ==
    /\ solver.baseHeight = AsSupplied(config.baseHeight, DoubleOf(4, 0))
    /\ solver.lowerArmLength = AsSupplied(config.lowerArmLength, DoubleOf(12, 0))
    /\ solver.upperArmLength = AsSupplied(config.upperArmLength, DoubleOf(10, 0))

\* C10: maxReach = lowerArmLength + upperArmLength and
\* minReach = |lowerArmLength - upperArmLength| after construction, and no
\* call of solve, forward or isReachable changes a field of the solver.
GeometryNeverChanges ==
    /\ [](/\ solver.maxReach
               = DoubleAdd(solver.lowerArmLength, solver.upperArmLength)
          /\ solver.minReach
               = DoubleAbs(DoubleSub(solver.lowerArmLength,
                                     solver.upperArmLength))
          /\ solver = constructor(config))
    /\ [][solver' = solver]_vars

\* C10 witness: solve and then forward have run on the default geometry
CallsMadeOnDefault ==
    /\ last.op = "forward"
    /\ last.chained
    /\ solver.maxReach = DoubleOf(22, 0)
    /\ solver.minReach = DoubleOf(2, 0)

\* the two divisors of the law of cosines in solve
ElbowDivisor ==
    DoubleMul(DoubleMul(DoubleOf(-2, 0), solver.lowerArmLength),
              solver.upperArmLength)

ShoulderDivisor ==
    DoubleMul(DoubleMul(DoubleOf(2, 0), solver.lowerArmLength),
              last.reachDistance)

\* the two links have lengths between 2^-500 and 2^500 in magnitude: their
\* squares and products are doubles that are neither infinite nor zero
SmallestLength == PowerOfTwo(-500)

LargestLength == PowerOfTwo(500)

ModerateLength(x) ==
    /\ GreaterEq(DoubleAbs(x), SmallestLength)
    /\ LessEq(DoubleAbs(x), LargestLength)

ModerateLengths ==
    /\ ModerateLength(solver.lowerArmLength)
    /\ ModerateLength(solver.upperArmLength)

\* arg.target lies on the vertical axis through the pivot: x == 0 and
\* z == 0, which holds of +0 and of -0
OnAxis == IsZero(arg.target.x) /\ IsZero(arg.target.z)

\* C12 as claimed: solve({x: 0, y, z: 0}) returns base = 0 with shoulder,
\* elbow and reachDistance all defined (not NaN), for every y, y = baseHeight
\* included.
DegenerateAzimuth ==
    (Solved /\ OnAxis)
    => /\ IsZero(last.angles.base)
       /\ ~IsNaN(last.angles.shoulder)
       /\ ~IsNaN(last.angles.elbow)
       /\ ~IsNaN(last.reachDistance)

\* Math.atan2(x, z) for two zeros: x itself when z is +0, and pi with the
\* sign of x when z is -0
AxisBase(x, z) == IF z.sign > 0 THEN x ELSE WithSign(MathPI, x.sign)

\* C12: for links of lengths between 2^-500 and 2^500 in magnitude,
\* solve({x: 0, y, z: 0}) returns a complete result for every y,
\* y = baseHeight included: shoulder, elbow and reachDistance are numbers in
\* their ranges, and base is +0 for x = +0 and z = +0, -0 for x = -0 and
\* z = +0, pi for x = +0 and z = -0, -pi for x = -0 and z = -0.
DegenerateAzimuthBySign ==
    (Solved /\ ModerateLengths /\ OnAxis)
    => /\ last.angles.base = AxisBase(arg.target.x, arg.target.z)
       /\ CompleteResult

\* C12 witness: the shoulder pivot itself was solved, its z written as -0,
\* and base is pi
PivotSolvedFacingBack ==
    /\ Solved
    /\ ModerateLengths
    /\ arg.target = Vector3(DoubleZero, solver.baseHeight, NegativeZero)
    /\ Requested = DoubleZero
    /\ last.angles.base = MathPI
    /\ last.reachDistance = MinReachPlus001

\* C13: forward of angles with elbow = 0 returns a point at distance
\* maxReach from the shoulder pivot, for every base and shoulder (read for
\* geometries of positive lengths).
StraightArmAtMaxReach ==
    (last.op = "forward" /\ PositiveLengths /\ last.angles.elbow = DoubleZero)
    => Near(PivotDistance(last.point), solver.maxReach)

\* the planar position of the reference composition of C14
RefPlanarX(a) ==
    DoubleAdd(DoubleMul(solver.lowerArmLength, Sin(a.shoulder)),
              DoubleMul(solver.upperArmLength,
                        Sin(DoubleSub(DoubleAdd(a.shoulder, a.elbow),
                                      MathPI))))

RefPlanarY(a) ==
    DoubleAdd(DoubleAdd(DoubleMul(solver.lowerArmLength, Cos(a.shoulder)),
                        DoubleMul(solver.upperArmLength,
                                  Cos(DoubleSub(DoubleAdd(a.shoulder, a.elbow),
                                                MathPI)))),
              solver.baseHeight)

\* the point of the reference composition for the planar position planarX
RefPoint(a, planarX) ==
    Vector3(DoubleMul(planarX, Sin(a.base)),
            RefPlanarY(a),
            DoubleMul(planarX, Cos(a.base)))

\* another base rotation than b
OtherBase(b) == IF b = HalfPI THEN DoubleOf(-7854, 4) ELSE HalfPI

\* C14: forward(angles) is planarX = lower sin(shoulder)
\* + upper sin(shoulder + elbow - PI), y = baseHeight + lower cos(shoulder)
\* + upper cos(shoulder + elbow - PI), x = planarX sin(base),
\* z = planarX cos(base); y does not depend on base and x^2 + z^2 = planarX^2
\* (within the tolerance).
ForwardIsReference ==
    last.op = "forward"
    => /\ last.point = RefPoint(last.angles, RefPlanarX(last.angles))
       /\ ~last.chained
            => forward(solver,
                       [last.angles EXCEPT !.base = OtherBase(last.angles.base)]).y
                 = last.point.y
       /\ Near(HorizontalDistance(last.point),
               DoubleAbs(RefPlanarX(last.angles)))

\* C14 witness: forward ran on angles with a base rotation and a bent elbow
ForwardOfTurnedArm ==
    /\ last.op = "forward"
    /\ ~last.chained
    /\ last.angles.base = HalfPI
    /\ last.angles.elbow = HalfPI
    /\ ~IsZero(last.point.x)

\* C15 as claimed: for a geometry of positive lengths and a target whose
\* planarDistance is strictly below minReach, isAtLimit = false.
UnderReachNotFlagged ==
    (Solved /\ PositiveLengths /\ Below(MinReach))
    => ~last.isAtLimit

\* C15 as amended: in a geometry whose clamping interval
\* [minReach + 0.01, maxReach x 0.999] is not empty, a target whose
\* planarDistance is strictly below minReach gets isAtLimit = false although
\* its distance was clamped up to minReach + 0.01.
UnderReachNotFlaggedInNonEmptyInterval ==
    (Solved /\ ClampIntervalNonEmpty /\ Below(MinReach))
    => /\ ~last.isAtLimit
       /\ last.reachDistance = MinReachPlus001
       /\ Below(last.reachDistance)

\* C15 witness: a target below minReach was clamped and not flagged
UnderReachClampedUnflagged ==
    /\ Solved
    /\ PositiveLengths
    /\ ClampIntervalNonEmpty
    /\ Greater(Requested, DoubleZero)
    /\ Below(MinReach)
    /\ last.reachDistance = MinReachPlus001
    /\ ~last.isAtLimit

\* x lies in [-1, 1]
InUnitInterval(x) ==
    /\ GreaterEq(x, DoubleOf(-1, 0))
    /\ LessEq(x, DoubleOf(1, 0))

\* x lies in (-1, 1)
InsideUnitInterval(x) ==
    /\ Greater(x, DoubleOf(-1, 0))
    /\ Less(x, DoubleOf(1, 0))

\* the two values solve hands to Math.acos
ElbowAcosArgument == ClampCos(CosElbowAngle(solver, last.reachDistance))

ShoulderAcosArgument == ClampCos(CosShoulderOffset(solver, last.reachDistance))

\* C16 as claimed: for a geometry of positive lengths and every finite
\* target, both divisors of the law of cosines are non-zero and both values
\* handed to acos lie in [-1, 1], so elbow and shoulder are never NaN.
AcosArgumentsInRange ==
    (Solved /\ PositiveLengths)
    => /\ ~IsZero(ElbowDivisor)
       /\ ~IsZero(ShoulderDivisor)
       /\ InUnitInterval(ElbowAcosArgument)
       /\ InUnitInterval(ShoulderAcosArgument)
       /\ ~IsNaN(last.angles.elbow)
       /\ ~IsNaN(last.angles.shoulder)

\* C16: for a geometry of positive lengths whose two links are between
\* 2^-500 and 2^500 long, and every finite target, both divisors of the law
\* of cosines are non-zero and both values handed to acos lie in [-1, 1], so
\* elbow and shoulder are never NaN: elbow lies in [0, pi] and shoulder in
\* [-pi, pi].
AcosArgumentsInRangeForModerateLengths ==
    (Solved /\ PositiveLengths /\ ModerateLengths)
    => /\ ~IsZero(ElbowDivisor)
       /\ ~IsZero(ShoulderDivisor)
       /\ InUnitInterval(ElbowAcosArgument)
       /\ InUnitInterval(ShoulderAcosArgument)
       /\ Between(last.angles.elbow, DoubleZero, MathPI)
       /\ Between(last.angles.shoulder, DoubleNeg(MathPI), MathPI)

\* C16 witness: a solve, with links at the lower end of these lengths, in
\* which the clamp of the elbow cosine was active
ElbowCosineClamped ==
    /\ Solved
    /\ PositiveLengths
    /\ ModerateLengths
    /\ solver.lowerArmLength = SmallestLength
    /\ Less(CosElbowAngle(solver, last.reachDistance), DoubleOf(-1, 0))
    /\ last.angles.elbow = DoubleZero

\* the animation frame is between two statements of updateSimulation or animate
InFrame == pc \notin {"idle", "jobs"}

\* C17: in every animation frame updateSimulation runs before render, and in
\* it (1) smoothTarget is lerped toward target, (2) solve is called exactly
\* once, on the smoothed target and never on the raw target,
\* (3) updateArmAngles receives that result, (4) updateTargetMarker runs; the
\* angles rendered in a frame are those solved in the same frame.
FrameInOrder ==
    /\ pc \in {"show", "solve", "arm", "marker", "render"}
         => state.smoothTarget
              = lerp(frame.from, state.target, SmoothingFactor(state))
    /\ pc \in {"lerp", "show", "solve"} => frame.solves = 0
    /\ pc \in {"arm", "marker", "render", "idle", "jobs"}
         => /\ frame.solves = 1
            /\ arg.target = state.smoothTarget
            /\ last.op = "solve"
    /\ pc = "arm" => last = SolveCall(SolveOf(solver, state.smoothTarget))
    /\ pc \in {"lerp", "show", "solve", "arm"}
         => scene.marker.turns = frame.number
    /\ pc \in {"marker", "render", "idle", "jobs"} => scene.arm = last.angles
    /\ pc \in {"render", "idle", "jobs"}
         => /\ scene.marker.position = state.smoothTarget
            /\ scene.marker.turns = frame.number + 1
    /\ InFrame => frame.rendered.number = frame.number - 1
    /\ ~InFrame
         => frame.rendered = [arm |-> last.angles,
                              marker |-> state.smoothTarget,
                              number |-> frame.number]

\* C17 witness: a frame that moved smoothTarget toward a target elsewhere was
\* rendered with the angles solved for the moved smoothTarget
MovingFrameRendered ==
    /\ pc = "idle"
    /\ frame.number = 1
    /\ frame.rendered.number = 1
    /\ state.smoothTarget # frame.from
    /\ state.smoothTarget # state.target
    /\ frame.rendered.arm = last.angles
    /\ frame.rendered.marker = state.smoothTarget

\* start() was called on camera c, did not fail, and c was not stopped
Live(c) == cameras[c].start # "rejected" /\ ~cameras[c].stopped

\* C18: under every interleaving of toggle clicks with the completion of
\* HandTracker.start and HandTracker.stop, a second click while a start is
\* pending included, no Camera is created or started while a Camera started
\* before it has not been stopped: every Camera but the newest has failed to
\* start or was stopped.
SingleCamera ==
    \A c \in 1..(Len(cameras) - 1) : ~Live(c)

\* a toggleCamera call is suspended at its await
ToggleInFlight ==
    \/ \E k \in 1..Len(calls) : calls[k].by = "toggleCamera"
    \/ \E j \in 1..Len(jobs) : jobs[j].by = "toggleCamera"

\* C19: whenever no toggleCamera call is in flight, state.isTracking equals
\* handTracker.isActive, after any sequence of toggles (the page was not
\* unloaded) whose camera starts and stops succeed or fail.
TrackingAgrees ==
    (unloads = 0 /\ ~ToggleInFlight) => state.isTracking = tracker.isActive

\* toggleCamera catches the error of a failed start in this step
CatchesStartFailure ==
    /\ Resuming("toggle catch")
    /\ jobs' = Tail(jobs)

\* what C20 says a failed Camera.start leaves behind
LeftIdle ==
    /\ caught' = CameraError
    /\ ~tracker'.isActive
    /\ ~state'.isTracking
    /\ ui' = ui

\* C20: if Camera.start fails, HandTracker.start rejects with the error
\* 'Camera access denied or not available' and leaves isActive = false, and
\* toggleCamera leaves state.isTracking = false and the button and status
\* unchanged, so that the next click attempts a start again rather than a stop.
StartFailureLeavesIdle ==
    [][CatchesStartFailure => LeftIdle]_vars

\* the same for the failing start of the only Camera created so far: the
\* case of a single toggleCamera call
StartFailureOfOnlyCamera ==
    [][(CatchesStartFailure /\ Len(cameras) = 1) => LeftIdle]_vars

\* C22 as claimed: for every geometry of positive lengths and every
\* (base, shoulder, elbow), the point forward returns lies between minReach
\* and maxReach from the shoulder pivot: isReachable(forward(angles)) is true.
ForwardInShell ==
    (last.op = "forward" /\ PositiveLengths)
    => isReachable(solver, last.point)

\* C22 as amended: the point forward returns lies between minReach and
\* maxReach from the shoulder pivot up to the rounding of the arithmetic
\* (within the tolerance); isReachable of it may be false on the boundary
\* of the shell, where rounding can put the point just outside.
ForwardInShellUpToRounding ==
    (last.op = "forward" /\ PositiveLengths)
    => /\ GreaterEq(PivotDistance(last.point),
                    DoubleSub(solver.minReach, Tol))
       /\ LessEq(PivotDistance(last.point),
                    DoubleAdd(solver.maxReach, Tol))

\* C22 witness: forward of a folded arm (elbow = 0) returned a point that
\* rounding put just inside minReach, so that isReachable rejects it
FoldedArmJustOutsideShell ==
    /\ last.op = "forward"
    /\ ~last.chained
    /\ PositiveLengths
    /\ last.angles.elbow = DoubleZero
    /\ Less(PivotDistance(last.point), solver.minReach)
    /\ GreaterEq(PivotDistance(last.point),
                 DoubleSub(solver.minReach, Tol))
    /\ ~isReachable(solver, last.point)

\* the solver has the default geometry (4, 12, 10)
DefaultGeometry ==
    /\ solver.baseHeight = DoubleOf(4, 0)
    /\ solver.lowerArmLength = DoubleOf(12, 0)
    /\ solver.upperArmLength = DoubleOf(10, 0)

\* C23: for the default geometry (4, 12, 10) the cosine clamps of solve are
\* never active: for every target the unclamped cosElbowAngle and
\* cosShoulderOffset of the clamped reachDistance lie strictly inside
\* (-1, 1), and solve never returns elbow 0 or PI.
ClampsNeverActive ==
    (Solved /\ DefaultGeometry)
    => /\ InsideUnitInterval(CosElbowAngle(solver, last.reachDistance))
       /\ InsideUnitInterval(CosShoulderOffset(solver, last.reachDistance))
       /\ Greater(last.angles.elbow, DoubleZero)
       /\ Less(last.angles.elbow, MathPI)

\* C23 witness: the default geometry solved a target nearer than minReach
\* at the near limit of the clamp, with the elbow short of PI
NearLimitShortOfFold ==
    /\ Solved
    /\ DefaultGeometry
    /\ Below(MinReach)
    /\ last.reachDistance = MinReachPlus001
    /\ Less(CosElbowAngle(solver, last.reachDistance), DoubleOf(1, 0))
    /\ Less(last.angles.elbow, MathPI)

\* the tolerance of a coordinate that lerp has rounded: 2^-40
RoundingTol == [sign |-> 1, m |-> NatShl(<<1>>, MantissaBits - 1), e |-> -92]

\* lo - tol <= x <= hi + tol, for integers lo and hi
Within(lo, hi, x, tol) ==
    /\ GreaterEq(x, DoubleSub(DoubleOf(lo, 0), tol))
    /\ LessEq(x, DoubleAdd(DoubleOf(hi, 0), tol))

\* p lies in the box x in [-15, 15], y in [2, 25], z in [-5, 20], up to tol
InBoxWithin(p, tol) ==
    /\ Within(-15, 15, p.x, tol)
    /\ Within(2, 25, p.y, tol)
    /\ Within(-5, 20, p.z, tol)

InBox(p) == InBoxWithin(p, DoubleZero)

\* smoothing * speed lies in [0, 1]
FactorInRange ==
    /\ GreaterEq(SmoothingFactor(state), DoubleZero)
    /\ LessEq(SmoothingFactor(state), DoubleOf(1, 0))

\* C21 as claimed: mapToWorldSpace returns a point with x in [-15, 15],
\* y in [2, 25], z in [-5, 20], and after any sequence of hand results and
\* animation frames with smoothing x speed in [0, 1], starting from
\* (10, 10, 0), state.target and the smoothTarget passed to solve stay
\* inside that box.
TargetsInBox ==
    FactorInRange
    => /\ InBox(state.target)
       /\ InBox(state.smoothTarget)

\* C21 as amended: state.target stays inside the box; the smoothTarget
\* passed to solve stays inside it up to the rounding of lerp (within the
\* tolerance), which at smoothing x speed = 1 can carry it past a face.
TargetsInBoxUpToRounding ==
    FactorInRange
    => /\ InBox(state.target)
       /\ InBoxWithin(state.smoothTarget, RoundingTol)

\* C21 witness: with the target on a face of the box and smoothing x speed
\* = 1, a frame carried smoothTarget past that face by rounding, and solve
\* received it
SmoothTargetRoundedPastFace ==
    /\ pc = "idle"
    /\ frame.number >= 1
    /\ SmoothingFactor(state) = DoubleOf(1, 0)
    /\ InBox(state.target)
    /\ ~InBox(state.smoothTarget)
    /\ InBoxWithin(state.smoothTarget, RoundingTol)
    /\ last.op = "solve"
    /\ arg.target = state.smoothTarget

====
